---- MODULE Spec2Model ----
(***************************************************************************)
(* recent-branches: the branch recency resolver (git.go) and the safe      *)
(* switch workflow (main.go, modal.go), as a state machine.                *)
(*                                                                         *)
(* The source tree holds two snapshots of git.go and main.go. The model    *)
(* follows the snapshot that goes with modal.go: git.go lines 1-638 (the   *)
(* one that has GetGitStatus) and main.go lines 241-980 (the one that      *)
(* routes events to the modal).                                            *)
(*                                                                         *)
(* Text is modelled as sequences: a branch name is a sequence of tokens    *)
(* (<<"fa">>, <<"origin/", "fa">>, <<"fa", " (remote)">>), a typed text is *)
(* a sequence of one-character strings. Time is counted in half seconds:   *)
(* commit dates are whole seconds (even), a reading of the clock has a     *)
(* sub-second part (odd).                                                  *)
(***************************************************************************)
EXTENDS Integers, Sequences, FiniteSets, TLC

\* ------------------------------------------------------------------ bounds

\* Commit dates are the seconds 1..MaxTime.
MaxTime == 3

\* The largest -n value explored.
MaxCount == 4

\* ----------------------------------------------------------- text helpers

Max(a, b) == IF a >= b THEN a ELSE b

Min(a, b) == IF a <= b THEN a ELSE b

Range(s) == {s[i] : i \in DOMAIN s}

\* strings.HasSuffix / strings.TrimSuffix / strings.HasPrefix / TrimPrefix on
\* token sequences; the suffix or prefix is one token.
HasSuffix(name, suf) == Len(name) > 0 /\ name[Len(name)] = suf

TrimSuffix(name, suf) ==
    IF HasSuffix(name, suf) THEN SubSeq(name, 1, Len(name) - 1) ELSE name

HasPrefix(name, pre) == Len(name) > 0 /\ name[1] = pre

TrimPrefix(name, pre) ==
    IF HasPrefix(name, pre) THEN SubSeq(name, 2, Len(name)) ELSE name

RemoteSuffix == " (remote)"

OriginPrefix == "origin/"

\* strings.TrimSpace on a sequence of characters.
RECURSIVE TrimLeft(_)
TrimLeft(s) ==
    IF s # <<>> /\ s[1] \in {" ", "\n", "\t"} THEN TrimLeft(Tail(s)) ELSE s

RECURSIVE TrimRight(_)
TrimRight(s) ==
    IF s # <<>> /\ s[Len(s)] \in {" ", "\n", "\t"}
    THEN TrimRight(SubSeq(s, 1, Len(s) - 1))
    ELSE s

TrimSpace(s) == TrimRight(TrimLeft(s))

\* strings.ToLower, on the letters the model uses.
LowerChar(c) ==
    CASE c = "A" -> "a"
      [] c = "B" -> "b"
      [] OTHER -> c

ToLower(s) == [i \in DOMAIN s |-> LowerChar(s[i])]

\* strings.Contains.
Contains(s, sub) ==
    \E i \in 0..(Len(s) - Len(sub)) : SubSeq(s, i + 1, i + Len(sub)) = sub

\* ------------------------------------------------------------ repository

\* The repository and its environment, as the git commands see it: a record
\*   inRepo     git rev-parse --git-dir succeeds
\*   head       output of git rev-parse --abbrev-ref HEAD (<<>>: it failed)
\*   heads      refs/heads/*: short name -> tip commit
\*   remotes    refs/remotes/*: short name -> tip commit
\*   reflog     lines of git reflog --all --grep-reflog=checkout:, newest first
\*   reflogOK   the reflog command can be run
\*   userCfg    git config user.email / user.name
\*   now        the clock, in half seconds (odd: never a whole second)
\*   changes    git status --porcelain=v1: path -> the two status codes
\*   stash      the stash list, newest first
\*   commits    the commits made in this session, newest first
VARIABLE git

\* A whole second as a time value.
Sec(k) == 2 * k

\* ----------------------------------------------------- parseTimestamp

Digits == {"0", "1", "2", "3", "4", "5", "6", "7", "8", "9"}

DigitVal(c) ==
    CASE c = "0" -> 0 [] c = "1" -> 1 [] c = "2" -> 2 [] c = "3" -> 3
      [] c = "4" -> 4 [] c = "5" -> 5 [] c = "6" -> 6 [] c = "7" -> 7
      [] c = "8" -> 8 [] c = "9" -> 9

\* time.Parse reads the layout "1136239445" as the chunks month, month,
\* hour(12), the literal 6, day, hour(12), the literal 9, minute, minute,
\* second: the string is no reference layout for a Unix time.
TimestampLayout == <<"month", "month", "hour12", "6", "day", "hour12", "9",
                     "minute", "minute", "second">>

\* getnum(value, fixed = false): one digit, or two when a second one follows.
GetNum(v) ==
    IF v = <<>> \/ v[1] \notin Digits THEN [ok |-> FALSE, n |-> 0, rest |-> v]
    ELSE IF Len(v) >= 2 /\ v[2] \in Digits
         THEN [ok |-> TRUE, n |-> 10 * DigitVal(v[1]) + DigitVal(v[2]),
               rest |-> SubSeq(v, 3, Len(v))]
         ELSE [ok |-> TRUE, n |-> DigitVal(v[1]), rest |-> Tail(v)]

ChunkInRange(chunk, n) ==
    CASE chunk = "month"  -> n >= 1 /\ n <= 12
      [] chunk = "hour12" -> n >= 0 /\ n <= 12
      [] chunk = "day"    -> n >= 1 /\ n <= 31
      [] chunk = "minute" -> n >= 0 /\ n <= 59
      [] chunk = "second" -> n >= 0 /\ n <= 59

\* The value of a parsed time: year 0, long before every commit date.
YearZeroTime(f) ==
    ((((f["month"] * 31 + f["day"]) * 24 + f["hour12"]) * 60 + f["minute"]) * 60
        + f["second"]) - 100000000

RECURSIVE ParseChunks(_, _, _)
ParseChunks(v, k, f) ==
    IF k > Len(TimestampLayout)
    THEN [ok |-> v = <<>>, t |-> YearZeroTime(f)]
    ELSE LET chunk == TimestampLayout[k] IN
         IF chunk \in {"6", "9"}
         THEN IF v # <<>> /\ v[1] = chunk
              THEN ParseChunks(Tail(v), k + 1, f)
              ELSE [ok |-> FALSE, t |-> 0]
         ELSE LET g == GetNum(v) IN
              IF g.ok /\ ChunkInRange(chunk, g.n)
              THEN ParseChunks(g.rest, k + 1, [f EXCEPT ![chunk] = g.n])
              ELSE [ok |-> FALSE, t |-> 0]

parseTimestamp(timestampStr) ==
    ParseChunks(timestampStr, 1,
                [c \in {"month", "day", "hour12", "minute", "second"} |-> 0])

\* ------------------------------------------------------- parseGitDate

\* A date as for-each-ref prints it: the format it is in and the second it
\* denotes. %(committerdate:iso8601) prints "2006-01-02 15:04:05 -0700".
GitDateFormats == {"2006-01-02T15:04:05-07:00", "2006-01-02T15:04:05Z",
                   "2006-01-02T15:04:05+00:00", "2006-01-02 15:04:05 -0700"}

parseGitDate(dateStr) ==
    IF dateStr.format \in GitDateFormats
    THEN [ok |-> TRUE, t |-> Sec(dateStr.sec)]
    ELSE [ok |-> FALSE, t |-> 0]

CommitterDateISO(sec) == [format |-> "2006-01-02 15:04:05 -0700", sec |-> sec]

\* ------------------------------------------------------------- sort.Slice

\* Go indexes from 0.
At(s, i) == s[i + 1]

Swap(s, i, j) == [s EXCEPT ![i + 1] = s[j + 1], ![j + 1] = s[i + 1]]

\* The less function of git.go:155: branches[i].LastUsed.After(branches[j].LastUsed).
Less(x, y) == x.LastUsed > y.LastUsed

\* sort.Slice sorts a slice of at most maxInsertion elements by insertion.
maxInsertion == 12

RECURSIVE InsertBack(_, _, _)
InsertBack(s, j, a) ==
    IF j > a /\ Less(At(s, j), At(s, j - 1))
    THEN InsertBack(Swap(s, j, j - 1), j - 1, a)
    ELSE s

RECURSIVE InsertionFrom(_, _, _, _)
InsertionFrom(s, i, a, b) ==
    IF i >= b THEN s ELSE InsertionFrom(InsertBack(s, i, a), i + 1, a, b)

\* insertionSortLessFunc(data, a, b): sorts data[a:b].
insertionSort(s, a, b) == InsertionFrom(s, a + 1, a, b)

\* order2 of the pivot choice: the two indices in order, and the swap count.
order2(s, x, y, swaps) ==
    IF Less(At(s, y), At(s, x)) THEN <<y, x, swaps + 1>> ELSE <<x, y, swaps>>

\* median of three indices.
median(s, x, y, z) ==
    LET o1 == order2(s, x, y, 0)
        o2 == order2(s, o1[2], z, o1[3])
        o3 == order2(s, o1[1], o2[1], o2[3])
    IN  [pivot |-> o3[2], swaps |-> o3[3]]

\* choosePivot for fewer than 50 elements (no Tukey ninther).
choosePivot(s, a, b) ==
    LET l == b - a
        i == a + (l \div 4)
        j == a + (l \div 4) * 2
        k == a + (l \div 4) * 3
        m == IF l >= 8 THEN median(s, i, j, k) ELSE [pivot |-> j, swaps |-> 0]
    IN  [pivot |-> m.pivot,
         hint  |-> IF m.swaps = 0 THEN "increasing" ELSE "unknown"]

\* partialInsertionSort for fewer than 50 elements: it changes nothing and
\* reports whether data[a:b] is in order already.
partialInsertionSort(s, a, b) ==
    \A i \in (a + 1)..(b - 1) : ~Less(At(s, i), At(s, i - 1))

RECURSIVE ScanUp(_, _, _, _)
ScanUp(s, i, j, a) ==
    IF i <= j /\ Less(At(s, i), At(s, a)) THEN ScanUp(s, i + 1, j, a) ELSE i

RECURSIVE ScanDown(_, _, _, _)
ScanDown(s, i, j, a) ==
    IF i <= j /\ ~Less(At(s, j), At(s, a)) THEN ScanDown(s, i, j - 1, a) ELSE j

RECURSIVE PartitionLoop(_, _, _, _)
PartitionLoop(s, i, j, a) ==
    LET i2 == ScanUp(s, i, j, a)
        j2 == ScanDown(s, i2, j, a)
    IN  IF i2 > j2
        THEN [data |-> Swap(s, j2, a), mid |-> j2]
        ELSE PartitionLoop(Swap(s, i2, j2), i2 + 1, j2 - 1, a)

\* partitionLessFunc(data, a, b, pivot).
partition(s, a, b, pivot) == PartitionLoop(Swap(s, a, pivot), a + 1, b - 1, a)

\* pdqsortLessFunc(data, a, b, limit) as it runs on a slice that was not
\* partitioned before: at most maxInsertion elements are sorted by
\* insertion; otherwise a pivot is chosen, a slice found in order is left
\* alone, and else it is partitioned and both sides are sorted.
RECURSIVE pdqsort(_, _, _)
pdqsort(s, a, b) ==
    IF b - a <= maxInsertion THEN insertionSort(s, a, b)
    ELSE LET c == choosePivot(s, a, b) IN
         IF c.hint = "increasing" /\ partialInsertionSort(s, a, b) THEN s
         ELSE LET p == partition(s, a, b, c.pivot) IN
              pdqsort(pdqsort(p.data, a, p.mid), p.mid + 1, b)

\* sort.Slice(branches, less), git.go:155-157.
SortSlice(s) == pdqsort(s, 0, Len(s))

\* --------------------------------------------------------------- queries

\* A tip commit, as the queries of git.go see it:
\*   sec      committer date, in seconds
\*   bases    the base branches git merge-base <base> <branch> succeeds for
\*   root     git rev-list --max-parents=0 HEAD succeeds
\*   log      git log <merge-base>..<branch> succeeds
\*   uniq     the authors of the commits that log lists, newest first

\* Maps with a changing key set.
EmptyMap == << >>

MapPut(m, k, v) == [x \in (DOMAIN m) \cup {k} |-> IF x = k THEN v ELSE m[x]]

Mine == <<"m", "i", "n", "e">>

All == <<"a", "l", "l">>

\* GitService.GetCurrentUser: user.email, else user.name, else an error.
GetCurrentUser(g) ==
    IF g.userCfg.email.set THEN [ok |-> TRUE, v |-> TrimSpace(g.userCfg.email.v)]
    ELSE IF g.userCfg.name.set THEN [ok |-> TRUE, v |-> TrimSpace(g.userCfg.name.v)]
    ELSE [ok |-> FALSE, v |-> <<>>]

\* GitService.GetCurrentBranch: the error is dropped by the resolver, which
\* then sees the empty string.
GetCurrentBranch(g) == [ok |-> g.head # <<>>, v |-> g.head]

\* for-each-ref lists by committer date, newest first, and by name among
\* equal dates. RefRank is the order of the names the model uses.
RefOrder == <<"b01", "b02", "b03", "b04", "b05", "b06", "b07", "b08", "b09",
              "b10", "b11", "b12", "b13", "fa", "fb", "fr", "main",
              "master">>

RefRank(name) == CHOOSE i \in DOMAIN RefOrder : RefOrder[i] = name[Len(name)]

RefBefore(refs, x, y) ==
    \/ refs[x].sec > refs[y].sec
    \/ refs[x].sec = refs[y].sec /\ RefRank(x) < RefRank(y)

ForEachRef(refs) ==
    [i \in 1..Cardinality(DOMAIN refs) |->
        CHOOSE x \in DOMAIN refs :
            Cardinality({y \in DOMAIN refs : RefBefore(refs, y, x)}) = i - 1]

\* GitService.getBranchInfo(refPath): one Branch per listed ref.
getBranchInfo(g, refPath) ==
    LET refs == IF refPath = "refs/heads/" THEN g.heads ELSE g.remotes
        lines == ForEachRef(refs)
        branch(branchName) ==
            LET d == parseGitDate(CommitterDateISO(refs[branchName].sec))
                isRemote == HasPrefix(branchName, OriginPrefix)
            IN  [Name |-> IF isRemote
                          THEN TrimPrefix(branchName, OriginPrefix) \o <<RemoteSuffix>>
                          ELSE branchName,
                 CommitDate |-> IF d.ok THEN d.t ELSE g.now,
                 LastUsed |-> 0,
                 IsRemote |-> isRemote]
    IN  [i \in DOMAIN lines |-> branch(lines[i])]

\* The tip git resolves a branch name to.
TipOf(g, gitBranchName) ==
    IF gitBranchName \in DOMAIN g.heads THEN g.heads[gitBranchName]
    ELSE g.remotes[gitBranchName]

BaseBranches == <<"main", "master", "develop", "dev">>

\* GitService.findMergeBase: the first base branch that has a merge base
\* with the branch, else the root commit, else an error.
findMergeBase(g, branchName) ==
    LET tip == TipOf(g, branchName)
        found == {i \in DOMAIN BaseBranches : BaseBranches[i] \in tip.bases}
    IN  IF found # {}
        THEN [ok |-> TRUE,
              base |-> BaseBranches[CHOOSE i \in found : \A j \in found : i <= j]]
        ELSE IF tip.root THEN [ok |-> TRUE, base |-> "root"]
        ELSE [ok |-> FALSE, base |-> ""]

\* A variant of branchHasAuthorCommits that drops a branch whose merge-base
\* or log query fails.
branchHasAuthorCommitsFailClosed(g, branch, authors, currentUser) ==
    LET branchName == IF branch.IsRemote
                      THEN TrimSuffix(branch.Name, RemoteSuffix)
                      ELSE branch.Name
        gitBranchName == IF branch.IsRemote
                         THEN <<OriginPrefix>> \o branchName
                         ELSE branchName
        tip == TipOf(g, gitBranchName)
    IN  IF branchName = <<"main">> \/ branchName = <<"master">> THEN TRUE
        ELSE IF ~findMergeBase(g, gitBranchName).ok THEN FALSE
        ELSE IF ~tip.log THEN FALSE
        ELSE IF tip.uniq = <<>> THEN TRUE
        ELSE \E i \in DOMAIN tip.uniq : \E k \in DOMAIN authors :
                IF authors[k] = Mine
                THEN currentUser \in {TrimSpace(tip.uniq[i].email),
                                      TrimSpace(tip.uniq[i].name)}
                ELSE \/ Contains(ToLower(TrimSpace(tip.uniq[i].email)),
                                 ToLower(authors[k]))
                     \/ Contains(ToLower(TrimSpace(tip.uniq[i].name)),
                                 ToLower(authors[k]))

\* A variant of branchHasAuthorCommits that treats main and master as any
\* other branch.
branchHasAuthorCommitsOfAny(g, branch, authors, currentUser) ==
    LET gitBranchName == IF branch.IsRemote
                         THEN <<OriginPrefix>> \o TrimSuffix(branch.Name, RemoteSuffix)
                         ELSE branch.Name
        tip == TipOf(g, gitBranchName)
    IN  IF ~findMergeBase(g, gitBranchName).ok THEN TRUE
        ELSE IF ~tip.log THEN TRUE
        ELSE IF tip.uniq = <<>> THEN TRUE
        ELSE \E i \in DOMAIN tip.uniq : \E k \in DOMAIN authors :
                IF authors[k] = Mine
                THEN currentUser \in {TrimSpace(tip.uniq[i].email),
                                      TrimSpace(tip.uniq[i].name)}
                ELSE \/ Contains(ToLower(TrimSpace(tip.uniq[i].email)),
                                 ToLower(authors[k]))
                     \/ Contains(ToLower(TrimSpace(tip.uniq[i].name)),
                                 ToLower(authors[k]))

\* One author filter against one commit (git.go:574-587).
AuthorMatches(author, email, name, currentUser) ==
    IF author = Mine
    THEN email = currentUser \/ name = currentUser
    ELSE \/ Contains(ToLower(email), ToLower(author))
         \/ Contains(ToLower(name), ToLower(author))

\* GitService.branchHasAuthorCommits. Every path of the code returns a nil
\* error, so the result is the inclusion flag alone.
branchHasAuthorCommits(g, branch, authors, currentUser) ==
    LET branchName == IF branch.IsRemote
                      THEN TrimSuffix(branch.Name, RemoteSuffix)
                      ELSE branch.Name
        gitBranchName == IF branch.IsRemote
                         THEN <<OriginPrefix>> \o branchName
                         ELSE branchName
        tip == TipOf(g, gitBranchName)
    IN  IF branchName = <<"main">> \/ branchName = <<"master">> THEN TRUE
        ELSE IF ~findMergeBase(g, gitBranchName).ok THEN TRUE
        ELSE IF ~tip.log THEN TRUE
        ELSE IF tip.uniq = <<>> THEN TRUE
        ELSE \E i \in DOMAIN tip.uniq : \E k \in DOMAIN authors :
                AuthorMatches(authors[k], TrimSpace(tip.uniq[i].email),
                              TrimSpace(tip.uniq[i].name), currentUser)

\* The reflog loop of GetRecentBranches (git.go:52-87): a line is
\* [checkout, to, ts]; the latest parsed timestamp per target is kept.
RECURSIVE ParseReflog(_, _)
ParseReflog(lines, m) ==
    IF lines = <<>> THEN m
    ELSE LET line == Head(lines)
             timestamp == parseTimestamp(line.ts)
         IN  ParseReflog(Tail(lines),
                 IF /\ line.checkout
                    /\ timestamp.ok
                    /\ (line.to \notin DOMAIN m \/ timestamp.t > m[line.to])
                 THEN MapPut(m, line.to, timestamp.t)
                 ELSE m)

\* A variant of FilterByAuthors that looks into the commits of the
\* branches under every filter, "all" among them.
FilterByAuthorsAlways(g, allBranches, authors, currentUser) ==
    SelectSeq(allBranches,
              LAMBDA b : branchHasAuthorCommits(g, b, authors, currentUser))

\* The filter loop of GetRecentBranches (git.go:110-134).
FilterByAuthors(g, allBranches, authors, currentUser) ==
    IF Len(authors) > 0 /\ authors[1] # All
    THEN SelectSeq(allBranches,
                   LAMBDA b : branchHasAuthorCommits(g, b, authors, currentUser))
    ELSE allBranches

\* A variant of SetLastUsed that looks a remote branch up under the name
\* it is listed with.
SetLastUsedAsListed(filteredBranches, branchLastUsed) ==
    [i \in DOMAIN filteredBranches |->
        [filteredBranches[i] EXCEPT !.LastUsed =
            IF filteredBranches[i].Name \in DOMAIN branchLastUsed
            THEN branchLastUsed[filteredBranches[i].Name]
            ELSE filteredBranches[i].CommitDate]]

\* The last-used loop of GetRecentBranches (git.go:136-152).
SetLastUsed(filteredBranches, branchLastUsed) ==
    [i \in DOMAIN filteredBranches |->
        LET branch == filteredBranches[i]
            branchKey == IF branch.IsRemote
                         THEN TrimSuffix(branch.Name, RemoteSuffix)
                         ELSE branch.Name
        IN  [branch EXCEPT !.LastUsed =
                IF branchKey \in DOMAIN branchLastUsed
                THEN branchLastUsed[branchKey]
                ELSE branch.CommitDate]]

\* A variant of Truncate that keeps the end of the list.
TruncateTail(branches, count) ==
    IF Len(branches) > count
    THEN IF count < 0
         THEN [kind |-> "panic", err |-> "", list |-> <<>>]
         ELSE [kind |-> "ok", err |-> "",
               list |-> SubSeq(branches, Len(branches) - count + 1, Len(branches))]
    ELSE [kind |-> "ok", err |-> "", list |-> branches]

\* A variant of Truncate that never returns less than one branch.
TruncateToOne(branches, count) ==
    IF Len(branches) > count
    THEN IF count < 0
         THEN [kind |-> "panic", err |-> "", list |-> <<>>]
         ELSE [kind |-> "ok", err |-> "", list |-> SubSeq(branches, 1, Max(count, 1))]
    ELSE [kind |-> "ok", err |-> "", list |-> branches]

\* A variant of Truncate that takes a negative count for zero.
TruncateClamping(branches, count) ==
    IF Len(branches) > count
    THEN [kind |-> "ok", err |-> "", list |-> SubSeq(branches, 1, Max(count, 0))]
    ELSE [kind |-> "ok", err |-> "", list |-> branches]

\* The truncation of GetRecentBranches (git.go:159-164): branches[:count]
\* with a negative count aborts the call.
Truncate(branches, count) ==
    IF Len(branches) > count
    THEN IF count < 0
         THEN [kind |-> "panic", err |-> "", list |-> <<>>]
         ELSE [kind |-> "ok", err |-> "", list |-> SubSeq(branches, 1, count)]
    ELSE [kind |-> "ok", err |-> "", list |-> branches]

Failed(msg) == [kind |-> "err", err |-> msg, list |-> <<>>]

\* The enumeration of GetRecentBranches (git.go:95-108): the local
\* branches, then the remote ones.
AllBranches(g, includeRemote) ==
    LET localBranches == getBranchInfo(g, "refs/heads/")
    IN  IF includeRemote
        THEN localBranches \o getBranchInfo(g, "refs/remotes/")
        ELSE localBranches

\* A variant of FilteredBranches that asks for the current user when "mine"
\* is anywhere in the list of authors.
FilteredBranchesAskingForMine(g, includeRemote, authors) ==
    LET needUser == \E k \in DOMAIN authors : authors[k] = Mine
        currentUser == IF needUser THEN GetCurrentUser(g).v ELSE <<>>
    IN  FilterByAuthors(g, AllBranches(g, includeRemote), authors, currentUser)

\* The branches GetRecentBranches keeps (git.go:36-50, 95-134); the current
\* user is asked for only when the first author is "mine".
FilteredBranches(g, includeRemote, authors) ==
    LET needUser == Len(authors) > 0 /\ authors[1] = Mine
        currentUser == IF needUser THEN GetCurrentUser(g).v ELSE <<>>
    IN  FilterByAuthors(g, AllBranches(g, includeRemote), authors, currentUser)

\* GitService.GetRecentBranches(count, includeRemote, authors).
GetRecentBranches(g, count, includeRemote, authors) ==
    LET needUser == Len(authors) > 0 /\ authors[1] = Mine
        user == GetCurrentUser(g)
    IN  IF ~g.inRepo THEN Failed("not in a git repository")
        ELSE IF needUser /\ ~user.ok THEN Failed("failed to get current user")
        ELSE IF ~g.reflogOK THEN Failed("failed to get git reflog")
        ELSE
        LET checkouts == ParseReflog(g.reflog, EmptyMap)
            currentBranch == GetCurrentBranch(g).v
            branchLastUsed == IF currentBranch # <<>>
                              THEN MapPut(checkouts, currentBranch, g.now)
                              ELSE checkouts
            filteredBranches == FilteredBranches(g, includeRemote, authors)
            branches == SetLastUsed(filteredBranches, branchLastUsed)
        IN  Truncate(SortSlice(branches), count)

\* The git commands findMergeBase runs for a branch (git.go:594-614): one
\* merge-base per base branch up to the first that answers, and the
\* root-commit query when none does.
MergeBaseQueries(g, branchName) ==
    LET found == {i \in DOMAIN BaseBranches :
                      BaseBranches[i] \in TipOf(g, branchName).bases}
        tried == IF found = {} THEN Len(BaseBranches)
                 ELSE CHOOSE i \in found : \A j \in found : i <= j
    IN  [i \in 1..tried |-> "merge-base"]
            \o (IF found = {} THEN <<"rev-list">> ELSE <<>>)

\* The git commands branchHasAuthorCommits runs for a branch
\* (git.go:506-545): none for main and master, else the merge-base lookup
\* and, when it succeeds, git log.
AuthorQueries(g, branch) ==
    LET branchName == IF branch.IsRemote
                      THEN TrimSuffix(branch.Name, RemoteSuffix)
                      ELSE branch.Name
        gitBranchName == IF branch.IsRemote
                         THEN <<OriginPrefix>> \o branchName
                         ELSE branchName
    IN  IF branchName = <<"main">> \/ branchName = <<"master">> THEN <<>>
        ELSE MergeBaseQueries(g, gitBranchName)
                 \o (IF findMergeBase(g, gitBranchName).ok THEN <<"log">> ELSE <<>>)

RECURSIVE FilterQueries(_, _)
FilterQueries(g, branches) ==
    IF branches = <<>> THEN <<>>
    ELSE AuthorQueries(g, Head(branches)) \o FilterQueries(g, Tail(branches))

\* The git commands GetRecentBranches runs, in order (git.go:30-134), up
\* to the first one whose failure ends the call.
ResolverQueries(g, includeRemote, authors) ==
    LET needUser == Len(authors) > 0 /\ authors[1] = Mine
        userQueries == IF ~needUser THEN <<>>
                       ELSE IF g.userCfg.email.set THEN <<"config">>
                       ELSE <<"config", "config">>
    IN  IF ~g.inRepo THEN <<"rev-parse">>
        ELSE IF needUser /\ ~GetCurrentUser(g).ok THEN <<"rev-parse">> \o userQueries
        ELSE IF ~g.reflogOK THEN <<"rev-parse">> \o userQueries \o <<"reflog">>
        ELSE <<"rev-parse">> \o userQueries \o <<"reflog", "rev-parse", "for-each-ref">>
                 \o (IF includeRemote THEN <<"for-each-ref">> ELSE <<>>)
                 \o (IF Len(authors) > 0 /\ authors[1] # All
                     THEN FilterQueries(g, AllBranches(g, includeRemote))
                     ELSE <<>>)

\* ----------------------------------------------------------- Change Guard

\* The paths of the working tree, in the order git status lists them.
PathOrder == <<"f1", "f2">>

\* A variant of HasUncommittedChanges that looks at the working tree only.
HasUnstagedChanges(g) ==
    \E p \in DOMAIN g.changes : g.changes[p].y \notin {" ", "?"}

\* GitService.HasUncommittedChanges: git diff --cached --quiet fails on a
\* staged change, git diff --quiet on an unstaged change of a tracked file;
\* an untracked file ("??") shows in neither.
HasUncommittedChanges(g) ==
    LET stagedErr   == \E p \in DOMAIN g.changes : g.changes[p].x \notin {" ", "?"}
        unstagedErr == \E p \in DOMAIN g.changes : g.changes[p].y \notin {" ", "?"}
    IN  stagedErr \/ unstagedErr

\* The lines of git status --porcelain=v1: XY, a blank, the path.
PorcelainLines(g) ==
    LET listed == SelectSeq(PathOrder, LAMBDA p : p \in DOMAIN g.changes)
    IN  [i \in DOMAIN listed |->
            <<g.changes[listed[i]].x, g.changes[listed[i]].y, " ", listed[i]>>]

\* A variant of OverallStatus that looks for a deletion first.
OverallStatusDeletedFirst(stagedStatus, workStatus) ==
    IF stagedStatus = "D" \/ workStatus = "D" THEN "D"
    ELSE IF stagedStatus = "A" \/ workStatus = "A" THEN "A"
    ELSE IF stagedStatus = "R" \/ workStatus = "R" THEN "R"
    ELSE IF stagedStatus = "C" \/ workStatus = "C" THEN "C"
    ELSE IF stagedStatus = "U" \/ workStatus = "U" THEN "U"
    ELSE "M"

\* The overall status of GetGitStatus (git.go:286-298).
OverallStatus(stagedStatus, workStatus) ==
    IF stagedStatus = "A" \/ workStatus = "A" THEN "A"
    ELSE IF stagedStatus = "D" \/ workStatus = "D" THEN "D"
    ELSE IF stagedStatus = "R" \/ workStatus = "R" THEN "R"
    ELSE IF stagedStatus = "C" \/ workStatus = "C" THEN "C"
    ELSE IF stagedStatus = "U" \/ workStatus = "U" THEN "U"
    ELSE "M"

\* GitService.GetGitStatus: strings.TrimSpace is applied to the whole
\* output, so the first line loses a leading blank status code.
GetGitStatus(g) ==
    LET out == PorcelainLines(g)
        lines == [i \in DOMAIN out |-> IF i = 1 THEN TrimLeft(out[i]) ELSE out[i]]
        kept == SelectSeq(lines, LAMBDA line : Len(line) >= 3)
    IN  [i \in DOMAIN kept |->
            LET line == kept[i]
                path == TrimSpace(SubSeq(line, 3, Len(line)))
            IN  [Path |-> path,
                 Status |-> OverallStatus(line[1], line[2]),
                 StagedStatus |-> line[1],
                 WorkStatus |-> line[2]]]

\* -------------------------------------------------------- line statistics

\* strings.Split(s, "\n") on a sequence of characters.
RECURSIVE SplitAt(_, _)
SplitAt(s, line) ==
    IF s = <<>> THEN <<line>>
    ELSE IF s[1] = "\n" THEN <<line>> \o SplitAt(Tail(s), <<>>)
    ELSE SplitAt(Tail(s), Append(line, s[1]))

Split(s) == SplitAt(s, <<>>)

\* strings.Fields: the maximal runs of characters that are not white space.
RECURSIVE FieldsAt(_, _)
FieldsAt(s, field) ==
    IF s = <<>> THEN (IF field = <<>> THEN <<>> ELSE <<field>>)
    ELSE IF s[1] \in {" ", "\n", "\t"}
    THEN (IF field = <<>> THEN <<>> ELSE <<field>>) \o FieldsAt(Tail(s), <<>>)
    ELSE FieldsAt(Tail(s), Append(field, s[1]))

Fields(s) == FieldsAt(s, <<>>)

\* parseInt: -1 at the first character that is no digit. The counts of the
\* model have at most three digits, far from the width of an int.
RECURSIVE parseIntFrom(_, _)
parseIntFrom(s, result) ==
    IF s = <<>> THEN result
    ELSE IF s[1] \notin Digits THEN -1
    ELSE parseIntFrom(Tail(s), result * 10 + DigitVal(s[1]))

parseInt(s) == parseIntFrom(s, 0)

\* A variant of the loop body of parseNumstatOutput that counts a binary
\* file as one line added and one line deleted.
NumstatLineCountingBinary(line, total) ==
    LET parts == Fields(line) IN
    IF line = <<>> \/ Len(parts) < 3 THEN total
    ELSE IF parts[1] = <<"-">> \/ parts[2] = <<"-">>
    THEN [added |-> total.added + 1, deleted |-> total.deleted + 1]
    ELSE [added |-> total.added + Max(parseInt(parts[1]), 0),
          deleted |-> total.deleted + Max(parseInt(parts[2]), 0)]

\* The loop body of parseNumstatOutput (git.go:358-383): empty lines, lines
\* of fewer than three fields and lines with a "-" field are skipped; a
\* field parseInt rejects adds nothing.
NumstatLine(line, total) ==
    LET parts == Fields(line) IN
    IF line = <<>> \/ Len(parts) < 3 THEN total
    ELSE IF parts[1] = <<"-">> \/ parts[2] = <<"-">> THEN total
    ELSE [added |-> IF parseInt(parts[1]) >= 0
                    THEN total.added + parseInt(parts[1]) ELSE total.added,
          deleted |-> IF parseInt(parts[2]) >= 0
                      THEN total.deleted + parseInt(parts[2]) ELSE total.deleted]

RECURSIVE NumstatLoop(_, _)
NumstatLoop(lines, total) ==
    IF lines = <<>> THEN total
    ELSE NumstatLoop(Tail(lines), NumstatLine(lines[1], total))

\* GitService.parseNumstatOutput.
parseNumstatOutput(output) ==
    NumstatLoop(Split(TrimSpace(output)), [added |-> 0, deleted |-> 0])

\* The decimal digits of a count, as git prints it.
RECURSIVE Decimal(_)
Decimal(n) ==
    IF n < 10 THEN <<CHOOSE c \in Digits : DigitVal(c) = n>>
    ELSE Append(Decimal(n \div 10), CHOOSE c \in Digits : DigitVal(c) = n % 10)

\* One record of git diff --numstat: added, a tab, deleted, a tab, the
\* path, a newline; both counts of a binary file are "-".
NumstatRecord(r) ==
    (IF r.binary THEN <<"-", "\t", "-">>
     ELSE Decimal(r.added) \o <<"\t">> \o Decimal(r.deleted))
        \o <<"\t">> \o r.path \o <<"\n">>

RECURSIVE NumstatText(_)
NumstatText(records) ==
    IF records = <<>> THEN <<>>
    ELSE NumstatRecord(records[1]) \o NumstatText(Tail(records))

\* GitService.getNumstatForFile: a failing command gives (0, 0), otherwise
\* the output is parsed.
getNumstatForFile(records, ok) ==
    IF ~ok THEN [added |-> 0, deleted |-> 0]
    ELSE parseNumstatOutput(NumstatText(records))

\* The run of git diff --numstat that is still to come.
NumstatOf(records) ==
    [records |-> records, ran |-> FALSE, ok |-> FALSE, added |-> 0, deleted |-> 0]

\* ------------------------------------------------------ mutating commands

\* The outcome of a command: the repository after it, the error it returned
\* ("" for none) and the mutating git commands it issued, in order.
Outcome(g, err, cmds) == [g |-> g, err |-> err, cmds |-> cmds]

Cmd(name, arg) == [cmd |-> name, arg |-> arg]

\* git add -A: every change becomes a staged one.
StageAll(g) ==
    [g EXCEPT !.changes =
        [p \in DOMAIN g.changes |->
            LET c == g.changes[p] IN
            [x |-> IF c.x \in {" ", "?"}
                   THEN (IF c.y = "?" THEN "A" ELSE c.y)
                   ELSE c.x,
             y |-> " "]]]

\* The base branch git log compares a branch with.
IsOwnBase(g, branchName) ==
    LET mb == findMergeBase(g, branchName)
    IN  mb.ok /\ <<mb.base>> = branchName

\* git commit -m message: a commit by the configured user at the tip of the
\* current branch; the index and the tracked files are clean after it.
CommitStaged(g, message) ==
    LET me == [email |-> g.userCfg.email.v, name |-> g.userCfg.name.v]
        tip == g.heads[g.head]
    IN  [g EXCEPT
            !.changes = << >>,
            !.commits = <<[branch |-> g.head, message |-> message]>> \o g.commits,
            !.heads = [g.heads EXCEPT ![g.head] =
                          [tip EXCEPT !.sec = (g.now - 1) \div 2,
                                      !.uniq = IF IsOwnBase(g, g.head)
                                               THEN tip.uniq
                                               ELSE <<me>> \o tip.uniq]]]

\* A variant of CommitMessage that appends the blank line and the body in
\* every case.
CommitMessageWithBody(subject, description) ==
    subject \o <<"\n", "\n">> \o description

\* The commit message of CommitChanges (git.go:431-437).
CommitMessage(subject, description) ==
    IF TrimSpace(description) # <<>>
    THEN subject \o <<"\n", "\n">> \o description
    ELSE subject

\* GitService.CommitChanges(subject, description). addOK and commitOK say
\* whether git lets the two commands succeed; git commit fails on its own
\* when nothing is staged.
CommitChanges(g, subject, description, addOK, commitOK) ==
    LET staged == StageAll(g)
        message == CommitMessage(subject, description)
        add == Cmd("add -A", <<>>)
        commit == Cmd("commit -m", message)
    IN  IF ~addOK
        THEN Outcome(g, "failed to stage changes", <<add>>)
        ELSE IF ~commitOK \/ DOMAIN staged.changes = {}
        THEN Outcome(staged, "failed to commit changes", <<add, commit>>)
        ELSE Outcome(CommitStaged(staged, message), "", <<add, commit>>)

\* The stash message of StashChanges (git.go:450).
StashMessage(branchName) == <<"WIP: changes before switching to ">> \o branchName

Tracked(changes) ==
    [p \in {q \in DOMAIN changes : changes[q].x # "?"} |-> changes[p]]

Untracked(changes) ==
    [p \in {q \in DOMAIN changes : changes[q].x = "?"} |-> changes[p]]

\* GitService.StashChanges(branchName): git stash push saves the tracked
\* changes as a new entry and cleans them from the working tree; with none
\* to save it succeeds without an entry.
StashChanges(g, branchName, stashOK) ==
    LET stashMessage == StashMessage(branchName)
        push == Cmd("stash push -m", stashMessage)
    IN  IF ~stashOK
        THEN Outcome(g, "failed to stash changes", <<push>>)
        ELSE IF DOMAIN Tracked(g.changes) = {}
        THEN Outcome(g, "", <<push>>)
        ELSE Outcome([g EXCEPT
                        !.stash = <<[message |-> stashMessage,
                                     changes |-> Tracked(g.changes)]>> \o g.stash,
                        !.changes = Untracked(g.changes)],
                     "", <<push>>)

\* A successful checkout: HEAD moves and the reflog gets a line (the format
\* %gt is no placeholder of git, which prints it as it stands).
ReflogTimestamp == <<"%", "g", "t">>

\* The reflog lines the model keeps (git expires older ones).
MaxReflog == 1

MoveHead(g, branchName) ==
    LET line == [checkout |-> TRUE, to |-> branchName, ts |-> ReflogTimestamp]
        lines == <<line>> \o g.reflog
    IN  [g EXCEPT !.head = branchName,
                  !.reflog = SubSeq(lines, 1, Min(Len(lines), MaxReflog))]

\* A variant of SwitchToBranch that never creates a branch.
SwitchToBranchPlain(g, branchName, checkoutOK) ==
    LET actualBranchName == IF HasSuffix(branchName, RemoteSuffix)
                            THEN TrimSuffix(branchName, RemoteSuffix)
                            ELSE branchName
        switch == Cmd("checkout", actualBranchName)
    IN  IF checkoutOK /\ actualBranchName \in DOMAIN g.heads
        THEN Outcome(MoveHead(g, actualBranchName), "", <<switch>>)
        ELSE Outcome(g, "failed to checkout branch", <<switch>>)

\* GitService.SwitchToBranch(branchName). checkoutOK says whether git lets
\* the checkout succeed.
SwitchToBranch(g, branchName, checkoutOK) ==
    LET isRemote == HasSuffix(branchName, RemoteSuffix)
        actualBranchName == IF isRemote
                            THEN TrimSuffix(branchName, RemoteSuffix)
                            ELSE branchName
        remoteName == <<OriginPrefix>> \o actualBranchName
        create == Cmd("checkout -b", actualBranchName \o remoteName)
        switch == Cmd("checkout", actualBranchName)
    IN  IF isRemote /\ actualBranchName \notin DOMAIN g.heads
        THEN IF checkoutOK /\ remoteName \in DOMAIN g.remotes
             THEN Outcome(MoveHead([g EXCEPT !.heads =
                                       MapPut(g.heads, actualBranchName,
                                              g.remotes[remoteName])],
                                   actualBranchName),
                          "", <<create>>)
             ELSE Outcome(g, "failed to create and checkout branch", <<create>>)
        ELSE IF checkoutOK /\ actualBranchName \in DOMAIN g.heads
             THEN Outcome(MoveHead(g, actualBranchName), "", <<switch>>)
             ELSE Outcome(g, "failed to checkout branch", <<switch>>)

\* ------------------------------------------------------------ CommitModal

FocusGitStatus == 0

FocusSubject == 1

FocusDescription == 2

\* subject.CharLimit of NewCommitModal.
CharLimit == 72

\* Key events: a named key, typed runes, or pasted text.
Key(name) == [key |-> name, text |-> <<>>]

Runes(text) == [key |-> "runes", text |-> text]

Paste(text) == [key |-> "paste", text |-> text]

\* tea.KeyMsg.String(): the runes as they are, pasted text in brackets.
MsgString(msg) ==
    CASE msg.key = "runes" -> msg.text
      [] msg.key = "paste" -> <<"[">> \o msg.text \o <<"]">>
      [] OTHER -> <<msg.key>>

\* key.Matches(msg, binding) for a binding of one key.
Matches(msg, name) == MsgString(msg) = <<name>>

NewCommitModal ==
    [visible |-> FALSE,
     subject |-> <<>>, subjectFocus |-> TRUE,
     description |-> <<>>, descriptionFocus |-> FALSE,
     focusIndex |-> FocusGitStatus,
     action |-> "None",
     targetBranch |-> <<>>,
     gitStatus |-> <<>>,
     expandedFiles |-> {},
     selectedFile |-> 0]

\* A variant of Show that keeps the texts, the expanded files and the
\* selected file of the previous opening.
ShowAsLeft(modal, targetBranch, g) ==
    [modal EXCEPT
        !.visible = TRUE,
        !.targetBranch = targetBranch,
        !.action = "None",
        !.focusIndex = FocusGitStatus,
        !.subjectFocus = FALSE,
        !.descriptionFocus = FALSE,
        !.gitStatus = GetGitStatus(g)]

\* CommitModal.Show(targetBranch).
Show(modal, targetBranch, g) ==
    [modal EXCEPT
        !.visible = TRUE,
        !.targetBranch = targetBranch,
        !.action = "None",
        !.focusIndex = FocusGitStatus,
        !.subjectFocus = FALSE,
        !.descriptionFocus = FALSE,
        !.subject = <<>>,
        !.description = <<>>,
        !.gitStatus = GetGitStatus(g),
        !.expandedFiles = {},
        !.selectedFile = 0]

\* A variant of Hide that leaves the modal as it is.
HideNothing(modal) == modal

\* CommitModal.Hide().
Hide(modal) ==
    [modal EXCEPT
        !.visible = FALSE,
        !.action = "None",
        !.subjectFocus = FALSE,
        !.descriptionFocus = FALSE]

\* CommitModal.updateFieldFocus().
updateFieldFocus(modal) ==
    [modal EXCEPT
        !.subjectFocus = (modal.focusIndex = FocusSubject),
        !.descriptionFocus = (modal.focusIndex = FocusDescription)]

\* CommitModal.nextField().
nextField(modal) ==
    updateFieldFocus([modal EXCEPT !.focusIndex = (modal.focusIndex + 1) % 3])

\* A variant of prevField that wraps around to the subject.
prevFieldToSubject(modal) ==
    LET newIndex == modal.focusIndex - 1
    IN  updateFieldFocus([modal EXCEPT
            !.focusIndex = IF newIndex < 0 THEN FocusSubject ELSE newIndex])

\* CommitModal.prevField().
prevField(modal) ==
    LET newIndex == modal.focusIndex - 1
    IN  updateFieldFocus([modal EXCEPT
            !.focusIndex = IF newIndex < 0 THEN FocusDescription ELSE newIndex])

\* textinput.Model.Update / textarea.Model.Update on a key event: a focused
\* field takes typed and pasted text at its end, up to its limit.
TextUpdate(value, focused, msg, limit) ==
    IF focused /\ msg.key \in {"runes", "paste"}
    THEN SubSeq(value \o msg.text, 1, Min(Len(value) + Len(msg.text), limit))
    ELSE value

\* A variant of CanCommit that lets every subject pass.
CanCommitAlways(modal) == TRUE

\* The condition of the Commit key (modal.go:218): the subject has a
\* character that is not white space.
CanCommit(modal) == TrimSpace(modal.subject) # <<>>

\* A variant of CommitModal.Update without the case of the space and enter
\* keys: they reach the text field that has the focus.
ModalUpdatePassingSpace(modal, msg) ==
    IF ~modal.visible THEN modal
    ELSE IF Matches(msg, "esc") THEN [modal EXCEPT !.action = "Cancel"]
    ELSE IF Matches(msg, "ctrl+s")
    THEN IF CanCommit(modal)
         THEN [modal EXCEPT !.action = "Commit"]
         ELSE modal
    ELSE IF Matches(msg, "ctrl+t") THEN [modal EXCEPT !.action = "Stash"]
    ELSE IF Matches(msg, "tab") THEN nextField(modal)
    ELSE IF Matches(msg, "shift+tab") THEN prevField(modal)
    ELSE IF Matches(msg, "up")
    THEN IF modal.focusIndex = FocusGitStatus
         THEN IF Len(modal.gitStatus) > 0 /\ modal.selectedFile > 0
              THEN [modal EXCEPT !.selectedFile = modal.selectedFile - 1]
              ELSE modal
         ELSE IF modal.focusIndex = FocusDescription
         THEN [modal EXCEPT !.focusIndex = FocusSubject,
                            !.subjectFocus = TRUE,
                            !.descriptionFocus = FALSE]
         ELSE modal
    ELSE IF Matches(msg, "down")
    THEN IF modal.focusIndex = FocusGitStatus
         THEN IF /\ Len(modal.gitStatus) > 0
                 /\ modal.selectedFile < Len(modal.gitStatus) - 1
              THEN [modal EXCEPT !.selectedFile = modal.selectedFile + 1]
              ELSE modal
         ELSE IF modal.focusIndex = FocusSubject
         THEN [modal EXCEPT !.focusIndex = FocusDescription,
                            !.subjectFocus = FALSE,
                            !.descriptionFocus = TRUE]
         ELSE modal
    ELSE IF modal.focusIndex = FocusSubject
    THEN [modal EXCEPT !.subject =
            TextUpdate(modal.subject, modal.subjectFocus, msg, CharLimit)]
    ELSE IF modal.focusIndex = FocusDescription
    THEN [modal EXCEPT !.description =
            TextUpdate(modal.description, modal.descriptionFocus, msg,
                       Len(modal.description) + Len(msg.text))]
    ELSE modal

\* CommitModal.Update(msg).
ModalUpdate(modal, msg) ==
    IF ~modal.visible THEN modal
    ELSE IF Matches(msg, "esc") THEN [modal EXCEPT !.action = "Cancel"]
    ELSE IF Matches(msg, "ctrl+s")
    THEN IF CanCommit(modal)
         THEN [modal EXCEPT !.action = "Commit"]
         ELSE modal
    ELSE IF Matches(msg, "ctrl+t") THEN [modal EXCEPT !.action = "Stash"]
    ELSE IF Matches(msg, "tab") THEN nextField(modal)
    ELSE IF Matches(msg, "shift+tab") THEN prevField(modal)
    ELSE IF Matches(msg, "up")
    THEN IF modal.focusIndex = FocusGitStatus
         THEN IF Len(modal.gitStatus) > 0 /\ modal.selectedFile > 0
              THEN [modal EXCEPT !.selectedFile = modal.selectedFile - 1]
              ELSE modal
         ELSE IF modal.focusIndex = FocusDescription
         THEN [modal EXCEPT !.focusIndex = FocusSubject,
                            !.subjectFocus = TRUE,
                            !.descriptionFocus = FALSE]
         ELSE modal
    ELSE IF Matches(msg, "down")
    THEN IF modal.focusIndex = FocusGitStatus
         THEN IF /\ Len(modal.gitStatus) > 0
                 /\ modal.selectedFile < Len(modal.gitStatus) - 1
              THEN [modal EXCEPT !.selectedFile = modal.selectedFile + 1]
              ELSE modal
         ELSE IF modal.focusIndex = FocusSubject
         THEN [modal EXCEPT !.focusIndex = FocusDescription,
                            !.subjectFocus = FALSE,
                            !.descriptionFocus = TRUE]
         ELSE modal
    ELSE IF MsgString(msg) = <<" ">> \/ MsgString(msg) = <<"enter">>
    THEN IF /\ modal.focusIndex = FocusGitStatus
            /\ Len(modal.gitStatus) > 0
            /\ modal.selectedFile < Len(modal.gitStatus)
         THEN LET selectedFilePath == modal.gitStatus[modal.selectedFile + 1].Path
              IN  [modal EXCEPT !.expandedFiles =
                      IF selectedFilePath \in modal.expandedFiles
                      THEN modal.expandedFiles \ {selectedFilePath}
                      ELSE modal.expandedFiles \cup {selectedFilePath}]
         ELSE modal
    ELSE IF modal.focusIndex = FocusSubject
    THEN [modal EXCEPT !.subject =
            TextUpdate(modal.subject, modal.subjectFocus, msg, CharLimit)]
    ELSE IF modal.focusIndex = FocusDescription
    THEN [modal EXCEPT !.description =
            TextUpdate(modal.description, modal.descriptionFocus, msg,
                       Len(modal.description) + Len(msg.text))]
    ELSE modal

\* --------------------------------------------------------------- log pane

\* NewLogViewer (main.go:281-290): the pane shows eight entries and keeps
\* fifty.
maxVisible == 8

maxEntries == 50

NewLogViewer ==
    [entries |-> <<>>, scrollOffset |-> 0, focused |-> FALSE, autoScroll |-> TRUE]

LogEntry(level, message) == [Level |-> level, Message |-> message]

\* A variant of addLogEntry that keeps every entry.
addLogEntryKeepingAll(lv, entry) ==
    LET kept == [lv EXCEPT !.entries = Append(lv.entries, entry)]
        maxScroll == Len(kept.entries) - maxVisible
    IN  IF kept.autoScroll /\ maxScroll > 0
        THEN [kept EXCEPT !.scrollOffset = maxScroll]
        ELSE kept

\* model.addLogEntry (main.go:467-491): the entry is appended, the oldest
\* entry is dropped beyond maxEntries, and with auto-scroll the pane moves
\* to the bottom.
addLogEntry(lv, entry) ==
    LET appended == Append(lv.entries, entry)
        kept == IF Len(appended) > maxEntries
                THEN [lv EXCEPT !.entries = Tail(appended),
                                !.scrollOffset = IF @ > 0 THEN @ - 1 ELSE @]
                ELSE [lv EXCEPT !.entries = appended]
        maxScroll == Len(kept.entries) - maxVisible
    IN  IF kept.autoScroll /\ maxScroll > 0
        THEN [kept EXCEPT !.scrollOffset = maxScroll]
        ELSE kept

\* model.clearLogs.
clearLogs(lv) ==
    [lv EXCEPT !.entries = <<>>, !.scrollOffset = 0, !.autoScroll = TRUE]

\* LogViewer.ScrollUp.
ScrollUp(lv) ==
    IF lv.scrollOffset > 0
    THEN [lv EXCEPT !.scrollOffset = @ - 1, !.autoScroll = FALSE]
    ELSE lv

\* LogViewer.ScrollDown: auto-scroll comes back at the bottom.
ScrollDown(lv) ==
    LET maxScroll == Len(lv.entries) - maxVisible IN
    IF maxScroll > 0 /\ lv.scrollOffset < maxScroll
    THEN [lv EXCEPT !.scrollOffset = @ + 1,
                    !.autoScroll = IF lv.scrollOffset + 1 = maxScroll THEN TRUE ELSE @]
    ELSE lv

\* LogViewer.ToggleFocus.
ToggleFocus(lv) == [lv EXCEPT !.focused = ~@]

\* The keys of Update that act on the pane (main.go:779-802): tab moves the
\* focus and logs it, l clears the pane and logs that, up and down scroll
\* the pane that has the focus.
UpdateLogs(lv, msg) ==
    IF Matches(msg, "tab")
    THEN addLogEntry(ToggleFocus(lv),
                     LogEntry("DEBUG", IF ~lv.focused THEN "Switched focus to logs"
                                       ELSE "Switched focus to table"))
    ELSE IF Matches(msg, "l")
    THEN addLogEntry(clearLogs(lv), LogEntry("INFO", "Logs cleared"))
    ELSE IF Matches(msg, "up") /\ lv.focused THEN ScrollUp(lv)
    ELSE IF Matches(msg, "down") /\ lv.focused THEN ScrollDown(lv)
    ELSE lv

\* ------------------------------------------------------------------ model

\* The program:
\*   m       the model struct of main.go with its commit modal (crashed: a
\*           slice bound out of range has aborted the process)
\*   phase   "start" before main() has loaded the branches, "running" in the
\*           interactive loop, "exit1" after os.Exit(1), "crashed" after a
\*           run-time panic, "quit" after tea.Quit
\*   issued  the mutating git commands of the last step, in order
\*   events  the number of events Update has handled
\*   stderr  what main() has written to standard error
\*   numstat one run of getNumstatForFile: the records git diff --numstat has
\*           to report, whether the command ran and succeeded, the totals
\*   logViewer  the log pane of main.go; the session leaves it aside, the
\*           specification of the pane follows it alone
VARIABLES m, phase, issued, events, stderr, numstat, logViewer

vars == <<git, m, phase, issued, events, stderr, numstat, logViewer>>

\* The result of a step of the program.
Result(mm, g, cmds) == [m |-> mm, g |-> g, cmds |-> cmds]

\* The assignment of loadBranches (main.go:591-596): m.branches is set
\* unless GetRecentBranches returned an error.
Loaded(mm, r) ==
    [kind |-> r.kind, err |-> r.err,
     m |-> IF r.kind = "ok" THEN [mm EXCEPT !.branches = r.list] ELSE mm]

\* model.loadBranches().
loadBranches(mm, g) ==
    Loaded(mm, GetRecentBranches(g, mm.count, mm.includeRemote, mm.authors))

\* model.setupTable(): TableManager.SetupTable builds a new table, whose
\* cursor is on the first row.
setupTable(mm) == [mm EXCEPT !.cursor = 0]

\* The rows of the table: one per branch, or the one row "No branches found".
RowCount(mm) == Max(Len(mm.branches), 1)

\* The refresh after a successful switch in the modal branch of Update
\* (main.go:720-727, 748-755): a failure is logged and nothing else.
AfterModalLoad(mm, l) ==
    IF l.kind = "ok" THEN setupTable(l.m)
    ELSE IF l.kind = "panic" THEN [mm EXCEPT !.crashed = TRUE]
    ELSE mm

RefreshAfterModal(mm, g) == AfterModalLoad(mm, loadBranches(mm, g))

\* A variant of the refresh that clears m.err when the list was loaded.
AfterLoadClearingErr(mm, l, doneMessage) ==
    IF l.kind = "ok"
    THEN [setupTable(l.m) EXCEPT !.err = "",
                                 !.message =
             IF doneMessage = <<>> THEN mm.message ELSE doneMessage]
    ELSE IF l.kind = "panic" THEN [mm EXCEPT !.crashed = TRUE]
    ELSE [mm EXCEPT !.err = l.err]

\* The refresh of the enter and r keys (main.go:817-825, 835-842): a
\* failure is kept in m.err.
AfterLoadOrErr(mm, l, doneMessage) ==
    IF l.kind = "ok"
    THEN [setupTable(l.m) EXCEPT !.message =
             IF doneMessage = <<>> THEN mm.message ELSE doneMessage]
    ELSE IF l.kind = "panic" THEN [mm EXCEPT !.crashed = TRUE]
    ELSE [mm EXCEPT !.err = l.err]

RefreshOrErr(mm, g, doneMessage) ==
    AfterLoadOrErr(mm, loadBranches(mm, g), doneMessage)

\* A variant of switchToBranch that does not compare the selected branch
\* with the current one.
switchToBranchUnchecked(mm, g, branchName, checkoutOK) ==
    IF ~GetCurrentBranch(g).ok
    THEN [m |-> mm, g |-> g, cmds |-> <<>>,
          err |-> <<"failed to get current branch">>]
    ELSE IF HasUncommittedChanges(g)
    THEN [m |-> [mm EXCEPT !.commitModal = Show(mm.commitModal, branchName, g)],
          g |-> g, cmds |-> <<>>, err |-> <<>>]
    ELSE LET s == SwitchToBranch(g, branchName, checkoutOK)
         IN  [m |-> mm, g |-> s.g, cmds |-> s.cmds,
              err |-> IF s.err = "" THEN <<>> ELSE <<s.err>>]

\* A variant of switchToBranch that opens the commit modal whatever the
\* state of the working tree.
switchToBranchAsking(mm, g, branchName, checkoutOK) ==
    IF ~GetCurrentBranch(g).ok
    THEN [m |-> mm, g |-> g, cmds |-> <<>>,
          err |-> <<"failed to get current branch">>]
    ELSE IF (IF HasSuffix(branchName, RemoteSuffix) THEN TrimSuffix(branchName, RemoteSuffix) ELSE branchName) = GetCurrentBranch(g).v
    THEN [m |-> mm, g |-> g, cmds |-> <<>>,
          err |-> <<"already on branch '">> \o GetCurrentBranch(g).v \o <<"'">>]
    ELSE [m |-> [mm EXCEPT !.commitModal = Show(mm.commitModal, branchName, g)],
          g |-> g, cmds |-> <<>>, err |-> <<>>]

\* The direct switch of switchToBranch (main.go:670-679): the error of
\* SwitchToBranch is returned as it is.
Switched(mm, s) ==
    [m |-> mm, g |-> s.g, cmds |-> s.cmds,
     err |-> IF s.err = "" THEN <<>> ELSE <<s.err>>]

\* model.switchToBranch(branchName).
switchToBranch(mm, g, branchName, checkoutOK) ==
    LET currentBranch == GetCurrentBranch(g)
        cleanBranchName == IF HasSuffix(branchName, RemoteSuffix)
                           THEN TrimSuffix(branchName, RemoteSuffix)
                           ELSE branchName
    IN  IF ~currentBranch.ok
        THEN [m |-> mm, g |-> g, cmds |-> <<>>,
              err |-> <<"failed to get current branch">>]
        ELSE IF cleanBranchName = currentBranch.v
        THEN [m |-> mm, g |-> g, cmds |-> <<>>,
              err |-> <<"already on branch '">> \o currentBranch.v \o <<"'">>]
        ELSE IF HasUncommittedChanges(g)
        THEN [m |-> [mm EXCEPT !.commitModal = Show(mm.commitModal, branchName, g)],
              g |-> g, cmds |-> <<>>, err |-> <<>>]
        ELSE Switched(mm, SwitchToBranch(g, branchName, checkoutOK))

\* A variant of ActCommit that goes on to the switch after a failed commit.
ActCommitSwitchAnyway(mm, g, targetBranch, o) ==
    LET c == CommitChanges(g, mm.commitModal.subject, mm.commitModal.description,
                           o.add, o.commit)
        s == SwitchToBranch(c.g, targetBranch, o.checkout)
    IN  IF s.err # ""
        THEN Result([mm EXCEPT !.message =
                        <<"Commit succeeded but branch switch failed: ", s.err>>],
                    s.g, c.cmds \o s.cmds)
        ELSE Result(RefreshAfterModal(
                        [mm EXCEPT !.message =
                            <<"Committed changes and switched to: ">> \o targetBranch],
                        s.g),
                    s.g, c.cmds \o s.cmds)

\* A variant of ActCommit that reports a failed switch as a failed commit.
ActCommitOneMessage(mm, g, targetBranch, o) ==
    LET c == CommitChanges(g, mm.commitModal.subject, mm.commitModal.description,
                           o.add, o.commit)
        s == SwitchToBranch(c.g, targetBranch, o.checkout)
    IN  IF c.err # ""
        THEN Result([mm EXCEPT !.message = <<"Commit failed: ", c.err>>],
                    c.g, c.cmds)
        ELSE IF s.err # ""
        THEN Result([mm EXCEPT !.message = <<"Commit failed: ", s.err>>],
                    s.g, c.cmds \o s.cmds)
        ELSE Result(RefreshAfterModal(
                        [mm EXCEPT !.message =
                            <<"Committed changes and switched to: ">> \o targetBranch],
                        s.g),
                    s.g, c.cmds \o s.cmds)

\* The switch after a successful commit (main.go:714-728); cmds are the
\* commands of the commit.
SwitchAfterCommit(mm, targetBranch, cmds, s) ==
    IF s.err # ""
    THEN Result([mm EXCEPT !.message =
                    <<"Commit succeeded but branch switch failed: ", s.err>>],
                s.g, cmds \o s.cmds)
    ELSE Result(RefreshAfterModal(
                    [mm EXCEPT !.message =
                        <<"Committed changes and switched to: ">> \o targetBranch],
                    s.g),
                s.g, cmds \o s.cmds)

\* The Commit case of Update after CommitChanges has returned c
\* (main.go:707-729).
AfterCommit(mm, targetBranch, o, c) ==
    IF c.err # ""
    THEN Result([mm EXCEPT !.message = <<"Commit failed: ", c.err>>], c.g, c.cmds)
    ELSE SwitchAfterCommit(mm, targetBranch, c.cmds,
                           SwitchToBranch(c.g, targetBranch, o.checkout))

\* The Commit case of Update (main.go:702-729).
ActCommit(mm, g, targetBranch, o) ==
    AfterCommit(mm, targetBranch, o,
                CommitChanges(g, mm.commitModal.subject,
                              mm.commitModal.description, o.add, o.commit))

\* A variant of ActStash that goes on to the switch after a failed stash.
ActStashSwitchAnyway(mm, g, targetBranch, o) ==
    LET c == StashChanges(g, targetBranch, o.stash)
        s == SwitchToBranch(c.g, targetBranch, o.checkout)
    IN  IF s.err # ""
        THEN Result([mm EXCEPT !.message =
                        <<"Stash succeeded but branch switch failed: ", s.err>>],
                    s.g, c.cmds \o s.cmds)
        ELSE Result(RefreshAfterModal(
                        [mm EXCEPT !.message =
                            <<"Stashed changes and switched to: ">> \o targetBranch],
                        s.g),
                    s.g, c.cmds \o s.cmds)

\* A variant of ActStash that takes the changes back out of the stash when
\* the switch fails.
ActStashPopping(mm, g, targetBranch, o) ==
    LET c == StashChanges(g, targetBranch, o.stash)
        s == SwitchToBranch(c.g, targetBranch, o.checkout)
    IN  IF c.err # ""
        THEN Result([mm EXCEPT !.message = <<"Stash failed: ", c.err>>],
                    c.g, c.cmds)
        ELSE IF s.err # ""
        THEN Result([mm EXCEPT !.message =
                        <<"Stash succeeded but branch switch failed: ", s.err>>],
                    g, c.cmds \o s.cmds \o <<Cmd("stash pop", <<>>)>>)
        ELSE Result(RefreshAfterModal(
                        [mm EXCEPT !.message =
                            <<"Stashed changes and switched to: ">> \o targetBranch],
                        s.g),
                    s.g, c.cmds \o s.cmds)

\* The switch after a successful stash (main.go:742-756); cmds are the
\* commands of the stash.
SwitchAfterStash(mm, targetBranch, cmds, s) ==
    IF s.err # ""
    THEN Result([mm EXCEPT !.message =
                    <<"Stash succeeded but branch switch failed: ", s.err>>],
                s.g, cmds \o s.cmds)
    ELSE Result(RefreshAfterModal(
                    [mm EXCEPT !.message =
                        <<"Stashed changes and switched to: ">> \o targetBranch],
                    s.g),
                s.g, cmds \o s.cmds)

\* The Stash case of Update after StashChanges has returned c
\* (main.go:735-757).
AfterStash(mm, targetBranch, o, c) ==
    IF c.err # ""
    THEN Result([mm EXCEPT !.message = <<"Stash failed: ", c.err>>], c.g, c.cmds)
    ELSE SwitchAfterStash(mm, targetBranch, c.cmds,
                          SwitchToBranch(c.g, targetBranch, o.checkout))

\* The Stash case of Update (main.go:731-757).
ActStash(mm, g, targetBranch, o) ==
    AfterStash(mm, targetBranch, o, StashChanges(g, targetBranch, o.stash))

\* A variant of ActCancel that switches to the target branch.
ActCancelSwitching(mm, g) ==
    LET s == SwitchToBranch(g, mm.commitModal.targetBranch, TRUE)
    IN  Result([mm EXCEPT !.message = <<"Branch switch cancelled">>], s.g, s.cmds)

\* The Cancel case of Update (main.go:759-762).
ActCancel(mm, g) ==
    Result([mm EXCEPT !.message = <<"Branch switch cancelled">>], g, <<>>)

\* The modal branch of Update (main.go:689-770): the event goes to the
\* modal, a latched action is carried out, and the modal is hidden.
HideAfter(r) ==
    Result([r.m EXCEPT !.commitModal = Hide(r.m.commitModal)], r.g, r.cmds)

\* The switch on the latched action (main.go:696-767).
TakeAction(mm, g, o) ==
    CASE mm.commitModal.action = "Commit" ->
            HideAfter(ActCommit(mm, g, mm.commitModal.targetBranch, o))
      [] mm.commitModal.action = "Stash" ->
            HideAfter(ActStash(mm, g, mm.commitModal.targetBranch, o))
      [] mm.commitModal.action = "Cancel" -> HideAfter(ActCancel(mm, g))
      [] OTHER -> Result(mm, g, <<>>)

UpdateModal(mm, g, msg, o) ==
    TakeAction([mm EXCEPT !.commitModal = ModalUpdate(mm.commitModal, msg)], g, o)

\* A variant of the enter case that reports the switch and refreshes the
\* list whether or not the modal was shown.
AfterSwitchReporting(branchName, s) ==
    IF s.err # <<>>
    THEN Result([s.m EXCEPT !.message = <<"Error: ">> \o s.err], s.g, s.cmds)
    ELSE Result(RefreshOrErr(
                    [s.m EXCEPT !.message = <<"Switched to branch: ">> \o branchName],
                    s.g, <<>>),
                s.g, s.cmds)

\* The enter case of Update after switchToBranch has returned
\* (main.go:810-827).
AfterSwitch(branchName, s) ==
    IF s.err # <<>>
    THEN Result([s.m EXCEPT !.message = <<"Error: ">> \o s.err], s.g, s.cmds)
    ELSE IF ~s.m.commitModal.visible
    THEN Result(RefreshOrErr(
                    [s.m EXCEPT !.message = <<"Switched to branch: ">> \o branchName],
                    s.g, <<>>),
                s.g, s.cmds)
    ELSE Result(s.m, s.g, s.cmds)

\* The enter case of Update (main.go:803-830).
UpdateEnter(mm, g, o) ==
    IF Len(mm.branches) > 0 /\ mm.cursor < Len(mm.branches)
    THEN AfterSwitch(mm.branches[mm.cursor + 1].Name,
                     switchToBranch(mm, g, mm.branches[mm.cursor + 1].Name,
                                    o.checkout))
    ELSE Result(mm, g, <<>>)

\* table.Model.Update on the keys that move the cursor.
UpdateTable(mm, msg) ==
    IF Matches(msg, "up") THEN [mm EXCEPT !.cursor = Max(mm.cursor - 1, 0)]
    ELSE IF Matches(msg, "down")
    THEN [mm EXCEPT !.cursor = Min(mm.cursor + 1, RowCount(mm) - 1)]
    ELSE mm

\* A variant of Update whose refresh key acts as the enter key.
UpdateRefreshSwitching(mm, g, msg, o) ==
    IF mm.commitModal.visible THEN UpdateModal(mm, g, msg, o)
    ELSE IF Matches(msg, "q") \/ Matches(msg, "ctrl+c")
    THEN Result([mm EXCEPT !.quitting = TRUE], g, <<>>)
    ELSE IF Matches(msg, "enter") \/ Matches(msg, "r") THEN UpdateEnter(mm, g, o)
    ELSE IF Matches(msg, "c") THEN Result([mm EXCEPT !.message = <<>>], g, <<>>)
    ELSE Result(UpdateTable(mm, msg), g, <<>>)

\* A variant of Update that looks at the quit keys before the modal.
UpdateQuittingFirst(mm, g, msg, o) ==
    IF Matches(msg, "q") \/ Matches(msg, "ctrl+c")
    THEN Result([mm EXCEPT !.quitting = TRUE], g, <<>>)
    ELSE IF mm.commitModal.visible THEN UpdateModal(mm, g, msg, o)
    ELSE IF Matches(msg, "enter") THEN UpdateEnter(mm, g, o)
    ELSE IF Matches(msg, "r")
    THEN Result(RefreshOrErr([mm EXCEPT !.message = <<"Refreshing...">>], g,
                             <<"Refreshed!">>),
                g, <<>>)
    ELSE IF Matches(msg, "c") THEN Result([mm EXCEPT !.message = <<>>], g, <<>>)
    ELSE Result(UpdateTable(mm, msg), g, <<>>)

\* model.Update(msg) for a key event.
Update(mm, g, msg, o) ==
    IF mm.commitModal.visible THEN UpdateModal(mm, g, msg, o)
    ELSE IF Matches(msg, "q") \/ Matches(msg, "ctrl+c")
    THEN Result([mm EXCEPT !.quitting = TRUE], g, <<>>)
    ELSE IF Matches(msg, "enter") THEN UpdateEnter(mm, g, o)
    ELSE IF Matches(msg, "r")
    THEN Result(RefreshOrErr([mm EXCEPT !.message = <<"Refreshing...">>], g,
                             <<"Refreshed!">>),
                g, <<>>)
    ELSE IF Matches(msg, "c") THEN Result([mm EXCEPT !.message = <<>>], g, <<>>)
    ELSE Result(UpdateTable(mm, msg), g, <<>>)

\* model.View() (main.go:868-929): the farewell after a quit, else the
\* error alone, else the screen with the table, the message and the modal
\* laid over it.
View(mm) ==
    IF mm.quitting THEN [kind |-> "farewell", text |-> <<"Goodbye!\n">>]
    ELSE IF mm.err # "" THEN [kind |-> "error", text |-> <<"Error: ", mm.err>>]
    ELSE [kind |-> "screen",
          text |-> <<mm.branches, mm.cursor, mm.message, mm.commitModal>>]

\* ------------------------------------------------------------ repositories

\* The events of a session.
MaxEvents == 6

Tip(sec, bases, root, log, uniq) ==
    [sec |-> sec, bases |-> bases, root |-> root, log |-> log, uniq |-> uniq]

Me == [email |-> <<"a", "@">>, name |-> <<"A", "l">>]

Bob == [email |-> <<"b", "@">>, name |-> <<"B", "o">>]

Configured == [email |-> [set |-> TRUE, v |-> Me.email],
               name |-> [set |-> TRUE, v |-> Me.name]]

Unconfigured == [email |-> [set |-> FALSE, v |-> <<>>],
                 name |-> [set |-> FALSE, v |-> <<>>]]

\* A reflog line: git prints %gt as it stands; a line with a Unix time is
\* what the format was written for.
UnixTimestamp == <<"1", "7", "0", "0", "0", "0", "0", "0", "0", "0">>

ReflogLine(to, ts) == [checkout |-> TRUE, to |-> to, ts |-> ts]

Repo(head, heads, remotes, reflog, now) ==
    [inRepo |-> TRUE, head |-> head, heads |-> heads, remotes |-> remotes,
     reflog |-> reflog, reflogOK |-> TRUE, userCfg |-> Configured, now |-> now,
     changes |-> << >>, stash |-> <<>>, commits |-> <<>>]

\* The author data of the branches fa and fb: who wrote the commits that
\* are on the branch alone, and which queries fail.
Profiles ==
    {[fa |-> Tip(1, {"main"}, TRUE, TRUE, <<Me>>),
      fb |-> Tip(1, {"main"}, TRUE, TRUE, <<Bob>>)],
     [fa |-> Tip(1, {"main"}, TRUE, TRUE, <<>>),
      fb |-> Tip(1, {"main"}, TRUE, TRUE, <<Bob, Me>>)],
     [fa |-> Tip(1, {"main"}, TRUE, FALSE, <<>>),
      fb |-> Tip(1, {}, FALSE, TRUE, <<>>)]}

MainTip == Tip(1, {"main"}, TRUE, TRUE, <<>>)

SmallHeads(profile, sa, sb) ==
    (<<"main">> :> MainTip)
        @@ (<<"fa">> :> [profile.fa EXCEPT !.sec = sa])
        @@ (<<"fb">> :> [profile.fb EXCEPT !.sec = sb])

\* The remote-tracking branches: origin/fa follows the local fa, origin/fr
\* has no local branch.
SmallRemotes(profile, sa, sb) ==
    (<<OriginPrefix, "fa">> :> [profile.fa EXCEPT !.sec = sa])
        @@ (<<OriginPrefix, "fr">> :> Tip(sb, {"main"}, TRUE, TRUE, <<Bob>>))

AuthorChoices ==
    {<<All>>, <<Mine>>, << <<"a", "l">> >>, << <<"b">> >>, << <<"b">>, Mine >>}

Flags(count, includeRemote, authors) ==
    [count |-> count, includeRemote |-> includeRemote, authors |-> authors]

\* The model struct main() builds from the flags.
NewModel(flags) ==
    [count |-> flags.count, includeRemote |-> flags.includeRemote,
     authors |-> flags.authors,
     branches |-> <<>>, cursor |-> 0, err |-> "", message |-> <<>>,
     quitting |-> FALSE, crashed |-> FALSE,
     commitModal |-> NewCommitModal]

Times == 1..MaxTime

\* The clock reads the middle of one of the last two seconds, so that a
\* commit date can lie in its future.
Clocks == {Sec(MaxTime - 1) + 1, Sec(MaxTime) + 1}

\* A repository with thirteen local branches: the first k were committed
\* in second 2, the others in second 1.
BigNames == [i \in 1..(maxInsertion + 1) |-> <<RefOrder[i]>>]

BigHeads(k) ==
    [n \in Range(BigNames) |->
        Tip(IF RefRank(n) <= k THEN 2 ELSE 1, {}, TRUE, TRUE, <<>>)]

\* ------------------------------------------------------------------ steps

StartState(g, flags) ==
    /\ git = g
    /\ m = NewModel(flags)
    /\ phase = "start"
    /\ issued = <<>>
    /\ events = 0
    /\ stderr = <<>>
    /\ numstat = NumstatOf(<<>>)
    /\ logViewer = NewLogViewer

\* A variant of main() that enters the event loop after a failed load.
StartedAnyway(l) ==
    /\ m' = IF l.kind = "ok" THEN setupTable(l.m) ELSE l.m
    /\ phase' = IF l.kind = "panic" THEN "crashed" ELSE "running"
    /\ stderr' = IF l.kind = "err" THEN <<"Error: ", l.err, "\n">> ELSE stderr

\* main(): the branches are loaded; on an error the program exits with
\* status 1, otherwise the table is set up and the event loop starts.
Started(l) ==
    /\ m' = IF l.kind = "ok" THEN setupTable(l.m) ELSE l.m
    /\ phase' = CASE l.kind = "ok" -> "running"
                  [] l.kind = "panic" -> "crashed"
                  [] OTHER -> "exit1"
    /\ stderr' = IF l.kind = "err" THEN <<"Error: ", l.err, "\n">> ELSE stderr

Startup ==
    /\ phase = "start"
    /\ Started(loadBranches(m, git))
    /\ issued' = <<>>
    /\ UNCHANGED <<git, events, numstat, logViewer>>

\* The resolver at startup, over small repositories, over repositories
\* where a query fails, and over repositories of thirteen branches.
InitSmall ==
    \E profile \in Profiles, sa \in Times, sb \in Times,
       head \in {<<"main">>, <<"fa">>, <<"HEAD">>},
       now \in Clocks, ts \in {ReflogTimestamp, UnixTimestamp},
       rem \in 1..4, count \in {0, 1, MaxCount}, authors \in AuthorChoices :
        StartState(
            Repo(head, SmallHeads(profile, sa, sb),
                 CASE rem = 1 -> << >>
                   [] rem = 4 -> (<<OriginPrefix, "fr">> :> Tip(sb, {"main"}, TRUE, TRUE, <<Bob>>))
                   [] OTHER -> SmallRemotes(profile, sa, sb),
                 <<ReflogLine(<<"fb">>, ts), ReflogLine(<<"fa">>, ts)>>, now),
            Flags(count, rem >= 3, authors))

InitFaulty ==
    \E fault \in {"norepo", "noreflog", "nouser", "nohead"},
       authors \in {<<All>>, <<Mine>>}, count \in {0, MaxCount} :
        LET g == Repo(<<"main">>, SmallHeads(CHOOSE p \in Profiles : TRUE, 2, 1),
                      << >>, <<>>, Sec(MaxTime) + 1)
        IN  StartState(
                CASE fault = "norepo"   -> [g EXCEPT !.inRepo = FALSE]
                  [] fault = "noreflog" -> [g EXCEPT !.reflogOK = FALSE]
                  [] fault = "nouser"   -> [g EXCEPT !.userCfg = Unconfigured]
                  [] fault = "nohead"   -> [g EXCEPT !.head = <<>>],
                Flags(count, FALSE, authors))

InitBig ==
    \E k \in 0..Len(BigNames), h \in 0..Len(BigNames), now \in Clocks :
        StartState(
            Repo(IF h = 0 THEN <<"HEAD">> ELSE BigNames[h], BigHeads(k), << >>,
                 <<>>, now),
            Flags(Len(BigNames), FALSE, <<All>>))

\* What the queries about the history of a branch can answer: commits of
\* another author, no merge base and no root commit, a failing git log, no
\* commit of its own.
Histories ==
    {Tip(2, {"main"}, TRUE, TRUE, <<Bob>>),
     Tip(2, {}, FALSE, TRUE, <<Bob>>),
     Tip(2, {"main"}, TRUE, FALSE, <<Bob>>),
     Tip(2, {"main"}, TRUE, TRUE, <<>>)}

\* Repositories with the trunks main and master, locally and on the
\* remote, where master and origin/main have a history of their own.
InitTrunk ==
    \E history \in Histories, head \in {<<"main">>, <<"master">>},
       authors \in AuthorChoices :
        StartState(
            Repo(head,
                 (<<"main">> :> MainTip)
                     @@ (<<"master">> :> history)
                     @@ (<<"fb">> :> Tip(1, {"main"}, TRUE, TRUE, <<Bob>>)),
                 (<<OriginPrefix, "main">> :> history)
                     @@ (<<OriginPrefix, "master">> :> MainTip),
                 <<>>, Sec(MaxTime) + 1),
            Flags(MaxCount, TRUE, authors))

InitResolve == InitSmall \/ InitFaulty \/ InitBig \/ InitTrunk

SpecResolve == InitResolve /\ [][Startup]_vars

\* ----------------------------------------------------------- the session

\* What git lets succeed during one step. The commands of a step run one
\* after the other and the first failure ends the step, so at most one of
\* git add, git commit, git stash push and git checkout is seen to fail.
Outcomes ==
    {o \in [add : BOOLEAN, commit : BOOLEAN, stash : BOOLEAN, checkout : BOOLEAN] :
        Cardinality({f \in DOMAIN o : ~o[f]}) <= 1}

\* The keys that can run a mutating command.
CommandKeys == {"ctrl+s", "ctrl+t", "enter"}

\* The other keys pressed: bindings of the modal and of the table.
PlainKeys == {"esc", "tab", "shift+tab", "up", "down", "ctrl+c"}

AllSucceed == [add |-> TRUE, commit |-> TRUE, stash |-> TRUE, checkout |-> TRUE]

\* The repository of a session: on main, with a local branch fa, and the
\* remote-tracking branches origin/main and origin/fr, whose tip is dated
\* in the last second.
SessionRepo ==
    Repo(<<"main">>,
         (<<"main">> :> MainTip)
             @@ (<<"fa">> :> Tip(2, {"main"}, TRUE, TRUE, <<Me>>)),
         (<<OriginPrefix, "main">> :> MainTip)
             @@ (<<OriginPrefix, "fr">> :> Tip(MaxTime, {"main"}, TRUE, TRUE, <<Me, Bob>>)),
         <<>>, Sec(MaxTime - 1) + 1)

Init ==
    \E flags \in {Flags(MaxCount, TRUE, <<All>>), Flags(MaxCount, FALSE, <<Mine>>)} :
        StartState(SessionRepo, flags)

\* One run of the event loop: Update handles the event; tea.Quit ends the
\* program, and so does a run-time panic.
Handled(r) ==
    /\ m' = r.m
    /\ git' = r.g
    /\ issued' = r.cmds
    /\ UNCHANGED <<stderr, numstat, logViewer>>
    /\ phase' = IF r.m.crashed THEN "crashed"
                ELSE IF r.m.quitting THEN "quit"
                ELSE "running"

Handle(msg, o) ==
    /\ phase = "running"
    /\ events < MaxEvents
    /\ events' = events + 1
    /\ Handled(Update(m, git, msg, o))

\* The user presses a key that can run git commands, which succeed or fail.
PressCommandKey == \E k \in CommandKeys, o \in Outcomes : Handle(Key(k), o)

\* The user presses another named key.
PressKey == \E k \in PlainKeys : Handle(Key(k), AllSucceed)

\* The user presses r or c at the table.
PressLetter ==
    /\ ~m.commitModal.visible
    /\ \E c \in {"r", "c"} : Handle(Runes(<<c>>), AllSucceed)

\* The user types q or a blank, or pastes a blank.
TypeText ==
    \E msg \in {Runes(<<"q">>), Runes(<<" ">>), Paste(<<" ">>)} :
        Handle(msg, AllSucceed)

Change(x, y) == [x |-> x, y |-> y]

\* The changes the user makes to a clean working tree: files modified,
\* modified and staged, or created.
WorkTrees ==
    {("f1" :> Change(" ", "M")),
     ("f1" :> Change("?", "?")),
     ("f2" :> Change("M", " ")),
     ("f1" :> Change(" ", "M")) @@ ("f2" :> Change("?", "?")),
     ("f1" :> Change("?", "?")) @@ ("f2" :> Change("M", "M"))}

\* The user works on a clean working tree.
EditFile ==
    /\ phase = "running"
    /\ git.changes = << >>
    /\ \E changes \in WorkTrees : git' = [git EXCEPT !.changes = changes]
    /\ issued' = <<>>
    /\ UNCHANGED <<m, phase, events, stderr, numstat, logViewer>>

Next == Startup \/ PressCommandKey \/ PressKey \/ PressLetter \/ TypeText \/ EditFile

Spec == Init /\ [][Next]_vars

\* ----------------------------------------------------- the resolved list

\* The place of a branch of the list in the enumeration.
EnumIndex(g, includeRemote, branch) ==
    LET allBranches == AllBranches(g, includeRemote)
    IN  CHOOSE i \in DOMAIN allBranches : allBranches[i].Name = branch.Name

\* C1: the list GetRecentBranches returns is ordered by last-used
\* descending, and two branches with equal last-used times keep the order
\* they had in the enumeration (local branches in for-each-ref order, then
\* the remote ones).
C1_StableDescending ==
    phase = "running" =>
        \A i, j \in DOMAIN m.branches :
            i < j =>
                /\ m.branches[i].LastUsed >= m.branches[j].LastUsed
                /\ m.branches[i].LastUsed = m.branches[j].LastUsed =>
                       EnumIndex(git, m.includeRemote, m.branches[i])
                           < EnumIndex(git, m.includeRemote, m.branches[j])

\* The current branch is among the branches the author filter keeps.
CurrentSurvives ==
    \E i \in DOMAIN FilteredBranches(git, m.includeRemote, m.authors) :
        LET b == FilteredBranches(git, m.includeRemote, m.authors)[i]
        IN  b.Name = git.head /\ ~b.IsRemote

\* C2: with a limit of at least 1, whenever the currently checked-out
\* branch survives filtering it is the first element of the list
\* GetRecentBranches returns.
C2_CurrentFirst ==
    (phase = "running" /\ m.count >= 1 /\ CurrentSurvives) =>
        /\ m.branches # <<>>
        /\ m.branches[1].Name = git.head
        /\ ~m.branches[1].IsRemote

\* ------------------------------------------------------ the switch workflow

\* The switch workflow is open: the commit modal is visible.
Open == phase = "running" /\ m.commitModal.visible

\* A text without a character other than white space.
Blank(text) == \A i \in DOMAIN text : text[i] \in {" ", "\t", "\n"}

\* A branch name as listed, without the mark of a remote branch.
StripRemote(name) ==
    IF Len(name) > 0 /\ name[Len(name)] = " (remote)"
    THEN SubSeq(name, 1, Len(name) - 1)
    ELSE name

\* The names of the commands issued, in order.
Names(cmds) == [i \in DOMAIN cmds |-> cmds[i].cmd]

Times_(cmds, name) == Cardinality({i \in DOMAIN cmds : cmds[i].cmd = name})

SwitchNames == {"checkout", "checkout -b"}

\* C3: while the workflow is open, ctrl+s with an empty or whitespace-only
\* subject never latches Commit: the decision stays None, the workflow
\* stays open, and no stage, commit or switch command is issued.
C3_BlankSubjectNeverCommits ==
    (Open /\ Blank(m.commitModal.subject)) =>
        /\ ModalUpdate(m.commitModal, Key("ctrl+s")).action = "None"
        /\ \A o \in Outcomes :
            LET r == Update(m, git, Key("ctrl+s"), o)
            IN  /\ r.m.commitModal.action = "None"
                /\ r.m.commitModal.visible
                /\ r.cmds = <<>>
                /\ r.g = git

\* ctrl+s on a subject of one blank, pasted into the focused subject field,
\* leaves the workflow as it was.
C3_Witness ==
    /\ Open
    /\ m.commitModal.subject = <<" ">>
    /\ m.commitModal.focusIndex = FocusSubject
    /\ Update(m, git, Key("ctrl+s"), AllSucceed) = Result(m, git, <<>>)

\* The Cancel step: no command, the repository as it was, the workflow
\* closed.
C4_CancelStep ==
    Open =>
        /\ ModalUpdate(m.commitModal, Key("esc")).action = "Cancel"
        /\ \A o \in Outcomes :
            LET r == Update(m, git, Key("esc"), o)
            IN  /\ r.cmds = <<>>
                /\ r.g = git
                /\ ~r.m.commitModal.visible

\* C4: when Cancel is latched no mutating command (add, commit, stash,
\* checkout) is issued, the current branch is the one from before the
\* workflow opened (no step that opens the workflow or leaves it open moves
\* HEAD, and neither does the Cancel step), and the workflow is closed when
\* the event has been processed.
C4_CancelChangesNothing ==
    /\ []C4_CancelStep
    /\ [][m'.commitModal.visible => (git'.head = git.head /\ issued' = <<>>)]_vars

\* The workflow was cancelled on a dirty tree and nothing has happened to
\* the repository.
C4_Witness ==
    /\ phase = "running"
    /\ m.message = <<"Branch switch cancelled">>
    /\ ~m.commitModal.visible
    /\ issued = <<>>
    /\ events >= 2
    /\ HasUncommittedChanges(git)
    /\ git.head = <<"main">>
    /\ git.stash = <<>> /\ git.commits = <<>>

\* C5: the Commit action stages all changes, then commits, and attempts
\* the switch to the recorded target branch only if the commit succeeded;
\* if staging or committing fails no switch is attempted and a
\* commit-failure message is reported.
C5_CommitThenSwitch ==
    (Open /\ ~Blank(m.commitModal.subject)) =>
        \A o \in Outcomes :
            LET r == Update(m, git, Key("ctrl+s"), o)
                names == Names(r.cmds)
                committed == Len(r.g.commits) = Len(git.commits) + 1
                target == StripRemote(m.commitModal.targetBranch)
            IN  /\ Len(names) \in 1..3
                /\ names[1] = "add -A"
                /\ Len(names) >= 2 => names[2] = "commit -m"
                /\ Len(names) = 3 =>
                       /\ names[3] \in SwitchNames
                       /\ SubSeq(r.cmds[3].arg, 1, Len(target)) = target
                /\ (Len(names) >= 2) <=> o.add
                /\ (Len(names) = 3) <=> committed
                /\ committed <=> (o.add /\ o.commit)
                /\ ~committed =>
                       /\ Len(r.m.message) = 2
                       /\ r.m.message[1] = "Commit failed: "
                       /\ r.m.message[2] = IF o.add THEN "failed to commit changes"
                                           ELSE "failed to stage changes"
                       /\ r.g.head = git.head
                       /\ r.g.commits = git.commits

\* A commit was made and the switch followed it.
C5_Witness ==
    /\ phase = "running"
    /\ Names(issued) = <<"add -A", "commit -m", "checkout -b">>
    /\ m.message = <<"Committed changes and switched to: ", "fr", " (remote)">>
    /\ git.head = <<"fr">>
    /\ Len(git.commits) = 1
    /\ git.commits[1].branch = <<"main">>

\* The Stash step when the stash succeeds and the switch fails.
C6_StashStep ==
    Open =>
        LET o == [AllSucceed EXCEPT !.checkout = FALSE]
            r == Update(m, git, Key("ctrl+t"), o)
        IN  /\ Len(r.m.message) = 2
            /\ r.m.message[1] = "Stash succeeded but branch switch failed: "
            /\ r.m.message[2] \in {"failed to checkout branch",
                                   "failed to create and checkout branch"}
            /\ r.g.head = git.head
            /\ Len(r.g.stash) = Len(git.stash) + 1
            /\ r.g.stash[1].message =
                   <<"WIP: changes before switching to ">> \o m.commitModal.targetBranch
            /\ r.g.stash[1].changes # << >>
            /\ Tail(r.g.stash) = git.stash
            /\ Names(r.cmds) \in {<<"stash push -m", "checkout">>,
                                  <<"stash push -m", "checkout -b">>}

\* C6: when the stash succeeds and the following switch fails, the message
\* names both the successful stash and the failed switch, the repository
\* stays on the original branch, and the created stash entry still exists
\* afterwards: the tool never issues stash pop, apply or drop, and no step
\* removes a stash entry.
C6_StashedButSwitchFailed ==
    /\ []C6_StashStep
    /\ [][/\ \A i \in DOMAIN issued' :
                issued'[i].cmd \notin {"stash pop", "stash apply", "stash drop"}
          /\ Len(git'.stash) >= Len(git.stash)
          /\ SubSeq(git'.stash, Len(git'.stash) - Len(git.stash) + 1,
                    Len(git'.stash)) = git.stash]_vars

C6_Witness ==
    /\ phase = "running"
    /\ m.message = <<"Stash succeeded but branch switch failed: ",
                     "failed to create and checkout branch">>
    /\ Names(issued) = <<"stash push -m", "checkout -b">>
    /\ git.head = <<"main">>
    /\ Len(git.stash) = 1
    /\ ~m.commitModal.visible

\* C7: when the commit succeeds and the following switch fails, the
\* failure reported is distinct from the plain commit failure and from the
\* plain switch failure, the repository is on the original branch, and the
\* new commit is present on it.
C7_CommittedButSwitchFailed ==
    (Open /\ ~Blank(m.commitModal.subject)) =>
        LET r == Update(m, git, Key("ctrl+s"), [AllSucceed EXCEPT !.checkout = FALSE])
            plain == Update(m, git, Key("ctrl+s"), [AllSucceed EXCEPT !.commit = FALSE])
        IN  /\ Len(r.m.message) = 2
            /\ r.m.message[1] = "Commit succeeded but branch switch failed: "
            /\ r.m.message[2] \in {"failed to checkout branch",
                                   "failed to create and checkout branch"}
            /\ r.m.message # plain.m.message
            /\ r.m.message[1] # plain.m.message[1]
            /\ r.m.message[1] # "Error: "
            /\ r.g.head = git.head
            /\ Len(r.g.commits) = Len(git.commits) + 1
            /\ r.g.commits[1].branch = git.head
            /\ r.g.commits[1].message[1] = m.commitModal.subject[1]
            /\ Tail(r.g.commits) = git.commits

C7_Witness ==
    /\ phase = "running"
    /\ m.message = <<"Commit succeeded but branch switch failed: ",
                     "failed to create and checkout branch">>
    /\ Names(issued) = <<"add -A", "commit -m", "checkout -b">>
    /\ git.head = <<"main">>
    /\ Len(git.commits) = 1
    /\ git.commits[1].branch = <<"main">>
    /\ git.changes = << >>

\* C8: in the Stash action the switch is attempted only after the stash
\* command succeeded; if the stash fails no switch is attempted, a
\* stash-failure message is reported and the current branch is unchanged.
C8_StashThenSwitch ==
    Open =>
        \A o \in Outcomes :
            LET r == Update(m, git, Key("ctrl+t"), o)
                names == Names(r.cmds)
            IN  /\ Len(names) \in 1..2
                /\ names[1] = "stash push -m"
                /\ Len(names) = 2 => names[2] \in SwitchNames
                /\ (Len(names) = 2) <=> o.stash
                /\ ~o.stash =>
                       /\ r.m.message = <<"Stash failed: ", "failed to stash changes">>
                       /\ r.g.head = git.head
                       /\ r.g = git

C8_Witness ==
    /\ phase = "running"
    /\ m.message = <<"Stash failed: ", "failed to stash changes">>
    /\ Names(issued) = <<"stash push -m">>
    /\ git.head = <<"main">>
    /\ git.stash = <<>>
    /\ HasUncommittedChanges(git)

\* The keys that latch a decision in the state, and the decision each
\* latches.
Latching ==
    {<<"esc", "Cancel">>, <<"ctrl+t", "Stash">>}
        \cup (IF Blank(m.commitModal.subject) THEN {} ELSE {<<"ctrl+s", "Commit">>})

\* After every event the workflow is not open with a decision; the modal
\* latches a decision and stays visible; the orchestrator then acts once,
\* closes the workflow and resets the decision.
C9_Latch ==
    /\ ~(m.commitModal.visible /\ m.commitModal.action # "None")
    /\ Open =>
        \A kd \in Latching, o \in Outcomes :
            LET latched == ModalUpdate(m.commitModal, Key(kd[1]))
                r == Update(m, git, Key(kd[1]), o)
            IN  /\ latched.visible
                /\ latched.action = kd[2]
                /\ ~r.m.commitModal.visible
                /\ r.m.commitModal.action = "None"
                /\ Times_(r.cmds, "add -A") = (IF kd[2] = "Commit" THEN 1 ELSE 0)
                /\ Times_(r.cmds, "commit -m") <= (IF kd[2] = "Commit" THEN 1 ELSE 0)
                /\ Times_(r.cmds, "stash push -m") = (IF kd[2] = "Stash" THEN 1 ELSE 0)
                /\ Times_(r.cmds, "checkout") + Times_(r.cmds, "checkout -b")
                       <= (IF kd[2] = "Cancel" THEN 0 ELSE 1)
                /\ kd[2] = "Cancel" => r.m.message = <<"Branch switch cancelled">>

\* C9: latching a decision does not close the modal; in the same step the
\* orchestrator performs the matching action exactly once, closes the
\* workflow and resets the decision to None. After any processed event the
\* workflow is never open with a decision other than None, and no decision
\* is acted on twice: a step stages, commits or stashes only when it
\* starts with the workflow open and undecided and ends with it closed.
C9_DecisionConsumedOnce ==
    /\ []C9_Latch
    /\ [][(\E i \in DOMAIN issued' :
              issued'[i].cmd \in {"add -A", "commit -m", "stash push -m"}) =>
            /\ m.commitModal.visible
            /\ m.commitModal.action = "None"
            /\ ~m'.commitModal.visible
            /\ m'.commitModal.action = "None"
            /\ Times_(issued', "add -A") <= 1
            /\ Times_(issued', "commit -m") <= 1
            /\ Times_(issued', "stash push -m") <= 1]_vars

\* A stash decision has been carried out and the workflow is closed.
C9_Witness ==
    /\ phase = "running"
    /\ Names(issued) = <<"stash push -m", "checkout">>
    /\ ~m.commitModal.visible
    /\ m.commitModal.action = "None"
    /\ m.message = <<"Stashed changes and switched to: ", "fa">>
    /\ git.head = <<"fa">>

\* The row under the cursor names the branch that is checked out.
SelectedIsCurrent ==
    /\ phase = "running"
    /\ ~m.commitModal.visible
    /\ m.cursor < Len(m.branches)
    /\ StripRemote(m.branches[m.cursor + 1].Name) = git.head

\* C10: selecting the branch that is already checked out (the selected
\* name compared without its remote mark) is rejected with an "already on
\* branch" message before the dirty check, before the workflow can open and
\* before any mutating command.
C10_AlreadyOnBranch ==
    SelectedIsCurrent =>
        \A o \in Outcomes :
            LET r == Update(m, git, Key("enter"), o)
            IN  /\ r.m.message =
                       <<"Error: ", "already on branch '">> \o git.head \o <<"'">>
                /\ r.cmds = <<>>
                /\ r.g = git
                /\ r.m.commitModal = m.commitModal
                /\ r.m.branches = m.branches

\* The remote row of the current branch was selected on a dirty tree.
C10_Witness ==
    /\ SelectedIsCurrent
    /\ m.branches[m.cursor + 1].Name = <<"main", " (remote)">>
    /\ HasUncommittedChanges(git)
    /\ m.message = <<"Error: ", "already on branch '", "main", "'">>
    /\ issued = <<>>
    /\ events >= 1

\* The row under the cursor names a branch other than the one checked out,
\* and the working tree has no change to a tracked file.
SelectedOtherOnCleanTree ==
    /\ phase = "running"
    /\ ~m.commitModal.visible
    /\ m.cursor < Len(m.branches)
    /\ GetCurrentBranch(git).ok
    /\ StripRemote(m.branches[m.cursor + 1].Name) # git.head
    /\ ~HasUncommittedChanges(git)

\* C11: when the working tree is reported clean and the selected branch is
\* not the current one, enter attempts the switch in the same event step:
\* exactly one checkout command is issued, the commit modal stays hidden and
\* no stage, commit or stash command is issued.
C11_CleanSwitchIsDirect ==
    SelectedOtherOnCleanTree =>
        \A o \in Outcomes :
            LET r == Update(m, git, Key("enter"), o)
            IN  /\ Len(r.cmds) = 1
                /\ r.cmds[1].cmd \in SwitchNames
                /\ ~r.m.commitModal.visible
                /\ r.m.commitModal = m.commitModal
                /\ o.checkout => r.g.head = StripRemote(m.branches[m.cursor + 1].Name)

\* A direct switch to fa was made from main with an untracked file in the
\* working tree.
C11_Witness ==
    /\ phase = "running"
    /\ Names(issued) = <<"checkout">>
    /\ git.head = <<"fa">>
    /\ m.message = <<"Switched to branch: ", "fa">>
    /\ ~m.commitModal.visible
    /\ m.commitModal.action = "None"
    /\ git.changes # << >>
    /\ ~HasUncommittedChanges(git)
    /\ git.stash = <<>>

\* After every step that moves HEAD the list held by the program is the one
\* the resolver returns for the repository as the step left it.
C12_Refreshed ==
    phase = "running" =>
        \A k \in CommandKeys, o \in Outcomes :
            LET r == Update(m, git, Key(k), o)
            IN  r.g.head # git.head =>
                    /\ r.m.err = ""
                    /\ r.m.branches =
                           GetRecentBranches(r.g, m.count, m.includeRemote,
                                             m.authors).list

\* C12: after every successful switch (direct, after a commit or after a
\* stash) the resolver is run again and the table rebuilt in the same event
\* step, and the resulting list has the newly checked-out branch first.
C12_SwitchedBranchFirst ==
    phase = "running" =>
        \A k \in CommandKeys, o \in Outcomes :
            LET r == Update(m, git, Key(k), o)
            IN  r.g.head # git.head =>
                    /\ r.m.branches =
                           GetRecentBranches(r.g, m.count, m.includeRemote,
                                             m.authors).list
                    /\ Len(r.m.branches) > 0
                    /\ StripRemote(r.m.branches[1].Name) = r.g.head

\* The messages that report a failure after which the user may try again:
\* a failed commit, a failed stash, a failed direct switch and the selection
\* of the current branch (the last two are shown as "Error: ...").
RecoverableFailure(message) ==
    /\ message # <<>>
    /\ message[1] \in {"Commit failed: ", "Stash failed: ", "Error: "}

\* The parts of the repository a failed action has to leave alone: the
\* current branch, the branches, the index and the working tree, the stashes.
SameRepository(g, h) ==
    /\ g.head = h.head
    /\ g.heads = h.heads
    /\ g.changes = h.changes
    /\ g.stash = h.stash
    /\ g.commits = h.commits

\* C13: every recoverable failure (commit failed, stash failed, switch
\* failed, already on branch) is reported as a message, and the current
\* branch, the index, the working tree and the stash list are as they were
\* before the action was attempted.
C13_FailureLeavesRepository ==
    phase = "running" =>
        \A k \in CommandKeys, o \in Outcomes :
            LET r == Update(m, git, Key(k), o)
            IN  (r.cmds # <<>> /\ RecoverableFailure(r.m.message)) =>
                    SameRepository(r.g, git)

\* The same, leaving out the commit that fails after git add has succeeded.
C13_LeavesRepositoryUnlessStaged ==
    phase = "running" =>
        \A k \in CommandKeys, o \in Outcomes :
            LET r == Update(m, git, Key(k), o)
            IN  /\ (r.cmds # <<>> /\ RecoverableFailure(r.m.message)
                        /\ Names(r.cmds) # <<"add -A", "commit -m">>) =>
                       SameRepository(r.g, git)
                /\ (r.cmds # <<>> /\ ~SameRepository(r.g, git)) =>
                       r.m.message # <<>>

\* ------------------------------------------------------ the author filter

\* The trunks: the branches listed as main or master, local or remote.
IsTrunk(branch) == StripRemote(branch.Name) \in {<<"main">>, <<"master">>}

\* The ref a listed branch stands for.
RefOf(branch) ==
    IF branch.IsRemote THEN <<OriginPrefix>> \o StripRemote(branch.Name)
    ELSE branch.Name

\* The repository with another history behind one ref.
WithHistory(g, ref, tip) ==
    IF ref \in DOMAIN g.heads
    THEN [g EXCEPT !.heads = [g.heads EXCEPT ![ref] = tip]]
    ELSE [g EXCEPT !.remotes = [g.remotes EXCEPT ![ref] = tip]]

\* Author filters, among them one that matches no commit and an empty one.
AuthorFilters == AuthorChoices \cup {<< <<"z">> >>, <<Mine, <<"z">> >>}

\* C14: a branch listed as main or master (the remote mark left out) passes
\* the author filter for every filter value and whatever the merge-base and
\* log queries would answer: the answer is TRUE under the history the
\* branch has and under every other one.
C14_TrunkAlwaysPasses ==
    git.inRepo =>
        \A branch \in Range(AllBranches(git, TRUE)) :
            IsTrunk(branch) =>
                \A authors \in AuthorFilters,
                   history \in Histories \cup {TipOf(git, RefOf(branch))},
                   currentUser \in {<<>>, Me.email, Bob.name} :
                    branchHasAuthorCommits(
                        WithHistory(git, RefOf(branch), history),
                        branch, authors, currentUser)

\* Under the filter "mine" the list shows master and the remote main, whose
\* commits are all by somebody else, and not the branch fb of that author.
C14_Witness ==
    /\ phase = "running"
    /\ m.authors = <<Mine>>
    /\ <<"master">> \in DOMAIN git.heads
    /\ git.heads[<<"master">>].uniq = <<Bob>>
    /\ git.heads[<<"master">>].log
    /\ git.heads[<<"master">>].bases = {"main"}
    /\ \E i \in DOMAIN m.branches : m.branches[i].Name = <<"master">>
    /\ \E i \in DOMAIN m.branches : m.branches[i].Name = <<"main", " (remote)">>
    /\ \A i \in DOMAIN m.branches : m.branches[i].Name # <<"fb">>

\* A branch the author filter decides by its commits: not a trunk, the
\* merge-base and log queries succeed, and the log is not empty.
DecidedByCommits(g, branch) ==
    /\ ~IsTrunk(branch)
    /\ findMergeBase(g, RefOf(branch)).ok
    /\ TipOf(g, RefOf(branch)).log
    /\ TipOf(g, RefOf(branch)).uniq # <<>>

\* A commit is by a requested author: "mine" asks for the configured
\* identity itself, any other value for a part of the email or the name,
\* whatever the case of the letters.
ByRequestedAuthor(g, commit, author) ==
    IF author = Mine
    THEN GetCurrentUser(g).v \in {commit.email, commit.name}
    ELSE \/ Contains(ToLower(commit.email), ToLower(author))
         \/ Contains(ToLower(commit.name), ToLower(author))

HasRequestedAuthor(g, branch, authors) ==
    \E i \in DOMAIN TipOf(g, RefOf(branch)).uniq, k \in DOMAIN authors :
        ByRequestedAuthor(g, TipOf(g, RefOf(branch)).uniq[i], authors[k])

\* C15: a branch other than main and master whose merge-base and log
\* queries succeed and that has a commit of its own passes the author filter
\* if and only if one of those commits is by a requested author.
C15_PassesIffAuthorMatches ==
    (git.inRepo /\ git.userCfg.email.set /\ m.authors[1] # All) =>
        \A branch \in Range(AllBranches(git, TRUE)) :
            DecidedByCommits(git, branch) =>
                ((branch \in Range(FilteredBranches(git, TRUE, m.authors)))
                    <=> HasRequestedAuthor(git, branch, m.authors))

\* The same for the filters that have "mine" in the first place or not at
\* all.
C15_WhenMineComesFirst ==
    (git.inRepo /\ git.userCfg.email.set /\ m.authors[1] # All
        /\ \A k \in DOMAIN m.authors : m.authors[k] = Mine => k = 1) =>
        \A branch \in Range(AllBranches(git, TRUE)) :
            DecidedByCommits(git, branch) =>
                ((branch \in Range(FilteredBranches(git, TRUE, m.authors)))
                    <=> HasRequestedAuthor(git, branch, m.authors))

\* A branch without a commit of its own: not a trunk, the merge-base and
\* log queries succeed, and the log from the merge base is empty.
FullyMerged(g, branch) ==
    /\ ~IsTrunk(branch)
    /\ findMergeBase(g, RefOf(branch)).ok
    /\ TipOf(g, RefOf(branch)).log
    /\ TipOf(g, RefOf(branch)).uniq = <<>>

\* C16: under an author filter other than "all", a branch other than main
\* and master that has no commit of its own relative to the merge base is
\* not in the list the resolver returns.
C16_FullyMergedExcluded ==
    (phase = "running" /\ m.authors[1] # All) =>
        \A branch \in Range(AllBranches(git, m.includeRemote)) :
            FullyMerged(git, branch) =>
                \A i \in DOMAIN m.branches : m.branches[i].Name # branch.Name

\* The merge-base lookup or the log query fails for a branch the author
\* filter has to look into.
QueryFails(g, branch) ==
    /\ ~IsTrunk(branch)
    /\ \/ ~findMergeBase(g, RefOf(branch)).ok
       \/ ~TipOf(g, RefOf(branch)).log

\* The queries of the resolver that do not concern one branch succeed.
ResolverCanRun ==
    /\ git.inRepo
    /\ git.reflogOK
    /\ (m.authors[1] = Mine => GetCurrentUser(git).ok)

\* C17: a branch whose merge-base lookup or log query fails during author
\* filtering is kept, and the failure does not propagate: the resolver
\* returns a list, with that branch in it, and no error.
C17_QueryFailureKeepsBranch ==
    ResolverCanRun =>
        \A branch \in Range(AllBranches(git, m.includeRemote)) :
            QueryFails(git, branch) =>
                /\ LET r == GetRecentBranches(git, MaxCount + 2, m.includeRemote,
                                              m.authors)
                   IN  /\ r.kind = "ok"
                       /\ r.err = ""
                       /\ \E i \in DOMAIN r.list : r.list[i].Name = branch.Name
                /\ branch \in Range(FilteredBranches(git, m.includeRemote, m.authors))
                /\ phase # "start" => (phase = "running" /\ m.err = "")

\* Under the filter "mine" the list shows fa, whose log fails, its remote
\* branch, and fb, which has no merge base, and not the branch of Bob.
C17_Witness ==
    /\ phase = "running"
    /\ m.authors = <<Mine>>
    /\ m.includeRemote
    /\ ~git.heads[<<"fa">>].log
    /\ ~findMergeBase(git, <<"fb">>).ok
    /\ <<OriginPrefix, "fr">> \in DOMAIN git.remotes
    /\ {m.branches[i].Name : i \in DOMAIN m.branches} =
           {<<"main">>, <<"fa">>, <<"fb">>, <<"fa", " (remote)">>}

\* ----------------------------------------------------- the returned list

\* The last-used times the resolver works with (git.go:46-93): the
\* check-outs of the reflog, and the clock for the current branch.
LastUsedTimes(g) ==
    IF GetCurrentBranch(g).v # <<>>
    THEN MapPut(ParseReflog(g.reflog, EmptyMap), GetCurrentBranch(g).v, g.now)
    ELSE ParseReflog(g.reflog, EmptyMap)

\* Every branch of the enumeration with its last-used time, nothing
\* filtered, in the order of the enumeration.
Enumerated(g, includeRemote) ==
    SetLastUsed(AllBranches(g, includeRemote), LastUsedTimes(g))

\* C18: with authors = ["all"] no branch is dropped by filtering: the
\* branches returned are the first `limit` of the sorted unfiltered
\* enumeration; none is listed twice, and every branch left out was last
\* used no later than every branch returned.
C18_AllFiltersNothing ==
    (phase = "running" /\ m.authors = <<All>>) =>
        LET all == Enumerated(git, m.includeRemote)
            shown == Range(m.branches)
        IN  /\ shown \subseteq Range(all)
            /\ Len(m.branches) = Min(m.count, Len(all))
            /\ Cardinality(shown) = Len(m.branches)
            /\ \A x \in Range(all) \ shown, y \in shown : x.LastUsed <= y.LastUsed
            /\ shown = Range(SubSeq(SortSlice(all), 1, Min(m.count, Len(all))))

\* Under "all" the list shows the branch of Bob and a branch without a
\* commit of its own, and all the remote branches.
C18_Witness ==
    /\ phase = "running"
    /\ m.authors = <<All>>
    /\ m.includeRemote
    /\ m.count > 1
    /\ Len(m.branches) = Min(m.count, Len(AllBranches(git, TRUE)))
    /\ Len(AllBranches(git, TRUE)) = 5
    /\ \E i \in DOMAIN m.branches :
            /\ m.branches[i].Name = <<"fb">>
            /\ git.heads[<<"fb">>].uniq = <<Bob>>
    /\ \E i \in DOMAIN m.branches : m.branches[i].Name = <<"fr", " (remote)">>

Surviving(g, includeRemote, authors) ==
    SetLastUsed(FilteredBranches(g, includeRemote, authors), LastUsedTimes(g))

\* C20: for every limit >= 0 the returned list has exactly min(limit,
\* number of surviving branches) elements and is the prefix of the sorted
\* surviving list, so that every branch left out was last used no later
\* than every branch returned.
C20_PrefixOfSorted ==
    (phase = "running" /\ m.count >= 0) =>
        LET surviving == Surviving(git, m.includeRemote, m.authors)
            n == Min(m.count, Len(surviving))
        IN  /\ Len(m.branches) = n
            /\ m.branches = SubSeq(SortSlice(surviving), 1, n)
            /\ Range(m.branches) \subseteq Range(surviving)
            /\ \A i \in 1..(n - 1) :
                   m.branches[i].LastUsed >= m.branches[i + 1].LastUsed
            /\ \A x \in Range(surviving) \ Range(m.branches),
                  y \in Range(m.branches) : x.LastUsed <= y.LastUsed

\* One branch of three surviving ones is shown, and one left out was last
\* used at an earlier time.
C20_Witness ==
    /\ phase = "running"
    /\ m.count = 1
    /\ Len(m.branches) = 1
    /\ m.authors = <<Mine>>
    /\ Len(Surviving(git, m.includeRemote, m.authors)) = 3
    /\ Len(AllBranches(git, m.includeRemote)) > 3
    /\ \E x \in Range(Surviving(git, m.includeRemote, m.authors)) :
            x.LastUsed < m.branches[1].LastUsed

\* ----------------------------------------------------- the checkout history

\* The time a reflog line was written, where its third field is the Unix
\* time the format of git.go:46 asks for; git prints the field "%gt" as it
\* stands, and such a field carries no time.
RECURSIVE UnixValue(_, _)
UnixValue(ts, acc) ==
    IF ts = <<>> THEN acc
    ELSE UnixValue(Tail(ts), 10 * acc + DigitVal(Head(ts)))

IsUnixTime(ts) == ts # <<>> /\ \A i \in DOMAIN ts : ts[i] \in Digits

\* The check-outs of the reflog that moved to a branch.
CheckoutsTo(g, branchName) ==
    {i \in DOMAIN g.reflog : g.reflog[i].checkout /\ g.reflog[i].to = branchName}

Reverse(s) == [i \in DOMAIN s |-> s[Len(s) + 1 - i]]

\* C21: for every branch named as the destination of a check-out record
\* the resolver retains a checkout-history time, which is the latest time
\* over all the records naming the branch, in whatever order the records
\* are read.
C21_LatestCheckoutRetained ==
    git.inRepo =>
        LET retained == ParseReflog(git.reflog, EmptyMap)
        IN  \A i \in DOMAIN git.reflog :
                git.reflog[i].checkout =>
                    LET to == git.reflog[i].to
                    IN  /\ to \in DOMAIN retained
                        /\ ParseReflog(Reverse(git.reflog), EmptyMap)[to] = retained[to]
                        /\ \A j \in CheckoutsTo(git, to) :
                               IsUnixTime(git.reflog[j].ts) =>
                                   retained[to] >= UnixValue(git.reflog[j].ts, 0)

\* The committer date of the tip a listed branch stands for.
CommitTime(g, branch) == Sec(TipOf(g, RefOf(branch)).sec)

\* C22: every listed branch has as its last-used time the time retained
\* for its name (the remote mark left out) where there is one, and the
\* committer date of its own tip otherwise.
C22_LastUsedFromHistoryOrCommit ==
    phase = "running" =>
        \A i \in DOMAIN m.branches :
            LET branch == m.branches[i]
                key == StripRemote(branch.Name)
            IN  branch.LastUsed =
                    IF key \in DOMAIN LastUsedTimes(git)
                    THEN LastUsedTimes(git)[key]
                    ELSE CommitTime(git, branch)

\* The list shows fa, which is checked out, and its remote branch with the
\* time retained for fa, and fb with the date of its commit, which differs.
C22_Witness ==
    /\ phase = "running"
    /\ git.head = <<"fa">>
    /\ \E i, j, k \in DOMAIN m.branches :
        /\ m.branches[i].Name = <<"fa">>
        /\ m.branches[j].Name = <<"fa", " (remote)">>
        /\ m.branches[k].Name = <<"fb">>
        /\ m.branches[i].LastUsed = git.now
        /\ m.branches[j].LastUsed = git.now
        /\ m.branches[j].CommitDate # git.now
        /\ m.branches[k].LastUsed = Sec(git.heads[<<"fb">>].sec)
        /\ m.branches[k].LastUsed # git.now

\* C23: with includeRemote set a remote-tracking branch is listed only if
\* no local branch has its name, so that the list never holds a local
\* branch together with its remote entry; with includeRemote unset the list
\* holds no remote entry at all.
C23_RemoteNotShadowed ==
    phase = "running" =>
        /\ ~m.includeRemote => \A i \in DOMAIN m.branches : ~m.branches[i].IsRemote
        /\ \A i, j \in DOMAIN m.branches :
               (~m.branches[i].IsRemote /\ m.branches[j].IsRemote) =>
                   StripRemote(m.branches[j].Name) # m.branches[i].Name

\* The half of C23 about includeRemote unset.
C23_NoRemoteUnlessAsked ==
    phase = "running" =>
        (~m.includeRemote =>
            \A i \in DOMAIN m.branches :
                /\ ~m.branches[i].IsRemote
                /\ m.branches[i].Name = StripRemote(m.branches[i].Name))

\* ------------------------------------------------------- fatal at startup

\* The directory is no repository, or the reflog query cannot be run.
NoRepositoryOrHistory(g) == ~g.inRepo \/ ~g.reflogOK

\* Outside a repository or without a reflog the resolver returns an error
\* and no list, and the program is before or after its exit with status 1.
C24_Fatal ==
    NoRepositoryOrHistory(git) =>
        /\ \A count \in {0, MaxCount}, authors \in {m.authors, <<All>>} :
               LET r == GetRecentBranches(git, count, m.includeRemote, authors)
               IN  /\ r.kind = "err"
                   /\ r.list = <<>>
                   /\ r.err \in {"not in a git repository",
                                 "failed to get git reflog",
                                 "failed to get current user"}
                   /\ (~git.inRepo => r.err = "not in a git repository")
        /\ phase \in {"start", "exit1"}
        /\ phase = "start" => stderr = <<>>
        /\ phase = "exit1" =>
               /\ stderr # <<>>
               /\ stderr[1] = "Error: "
               /\ m.branches = <<>>
               /\ events = 0

\* Once the program has left main() with status 1 it takes no further step.
C24_ExitIsFinal == [][phase = "exit1" => FALSE]_vars

\* C24: outside a repository, or when the reflog query cannot be executed,
\* GetRecentBranches returns an error and no list, for every limit and
\* filter; at startup the program then prints the error and exits with
\* status 1 without entering the interactive loop or taking another step.
C24_FatalAtStartup == []C24_Fatal /\ C24_ExitIsFinal

\* The program was started outside a repository and has exited with
\* status 1 after printing that.
C24_Witness ==
    /\ phase = "exit1"
    /\ ~git.inRepo
    /\ stderr = <<"Error: ", "not in a git repository", "\n">>
    /\ m.branches = <<>>

\* --------------------------------------------------- read-only resolution

\* The git commands that read the repository and write nothing to it: the
\* repository and HEAD queries, the configuration lookup, the reflog and
\* ref listings, the merge-base, root-commit and log queries.
ReadOnlyQueries ==
    {"rev-parse", "config", "reflog", "for-each-ref", "merge-base", "rev-list", "log"}

\* The repository as it is and with each of the failures of the resolver.
WithFailures(g) ==
    {g, [g EXCEPT !.inRepo = FALSE], [g EXCEPT !.reflogOK = FALSE],
     [g EXCEPT !.userCfg = Unconfigured]}

\* Every command the resolver runs is a read-only query, whether it ends
\* with a list or with an error; the refresh key changes nothing in the
\* repository and issues no command that could.
C25_ReadOnly ==
    /\ \A g \in WithFailures(git), authors \in {m.authors, <<Mine>>} :
           /\ Range(ResolverQueries(g, m.includeRemote, authors)) \subseteq ReadOnlyQueries
           /\ ResolverQueries(g, m.includeRemote, authors)[1] = "rev-parse"
    /\ (phase = "running" /\ ~m.commitModal.visible) =>
           LET r == Update(m, git, Runes(<<"r">>), AllSucceed)
           IN  r.g = git /\ r.cmds = <<>>

\* The load at startup leaves the repository as it is.
C25_StartupFrame == [][phase = "start" => (git' = git /\ issued' = <<>>)]_vars

\* C25: GetRecentBranches issues only read-only queries: for every input
\* and every outcome (list or error) the current branch, the index, the
\* working tree, the stash list and the refs are after the call as before
\* it; the same holds for the refresh key, which only runs the resolver
\* again.
C25_ResolverIsReadOnly == []C25_ReadOnly /\ C25_StartupFrame

\* The list was refreshed on fa with a stash and an untracked file in
\* place.
C25_Witness ==
    /\ phase = "running"
    /\ m.message = <<"Refreshed!">>
    /\ issued = <<>>
    /\ git.head = <<"fa">>
    /\ git.stash # <<>>
    /\ git.changes # << >>

\* ------------------------------------------------------ opening the modal

\* The commit modal as an opening for targetBranch has to leave it.
FreshlyOpened(modal, targetBranch, g) ==
    /\ modal.visible
    /\ modal.action = "None"
    /\ modal.subject = <<>>
    /\ modal.description = <<>>
    /\ modal.expandedFiles = {}
    /\ modal.selectedFile = 0
    /\ modal.focusIndex = FocusGitStatus
    /\ ~modal.subjectFocus /\ ~modal.descriptionFocus
    /\ modal.gitStatus = GetGitStatus(g)
    /\ modal.targetBranch = targetBranch

ExpectedSwitch(g, target) ==
    IF StripRemote(target) # target /\ StripRemote(target) \notin DOMAIN g.heads
    THEN [cmd |-> "checkout -b",
          arg |-> StripRemote(target) \o <<"origin/">> \o StripRemote(target)]
    ELSE [cmd |-> "checkout", arg |-> StripRemote(target)]

\* The checkouts among the commands of a step.
Switches(cmds) == SelectSeq(cmds, LAMBDA c : c.cmd \in SwitchNames)

\* The branch a step of the program would switch to.
SwitchTarget ==
    IF m.commitModal.visible THEN m.commitModal.targetBranch
    ELSE m.branches[m.cursor + 1].Name

\* C27: every switch (direct, after a commit, after a stash) works on the
\* target name without the remote mark and issues exactly one checkout: of
\* a new local branch tracking the remote one when the target is a remote
\* entry and no local branch has the stripped name, a plain checkout of the
\* stripped name otherwise.
C27_OneCheckoutForm ==
    phase = "running" =>
        \A k \in CommandKeys, o \in Outcomes :
            LET r == Update(m, git, Key(k), o)
                sw == Switches(r.cmds)
            IN  /\ Len(sw) <= 1
                /\ Len(sw) = 1 =>
                       /\ sw[1] = ExpectedSwitch(git, SwitchTarget)
                       /\ r.cmds[Len(r.cmds)] = sw[1]
                       /\ o.checkout =>
                              /\ r.g.head = StripRemote(SwitchTarget)
                              /\ r.g.head \in DOMAIN r.g.heads
                              /\ sw[1].cmd = "checkout -b" =>
                                     r.g.heads[r.g.head] =
                                         git.remotes[<<"origin/">> \o r.g.head]
                /\ r.g.head # git.head => Len(sw) = 1

\* After a commit the remote-only branch fr was checked out as a new local
\* branch.
C27_Witness ==
    /\ phase = "running"
    /\ Names(issued) = <<"add -A", "commit -m", "checkout -b">>
    /\ issued[3].arg = <<"fr", "origin/", "fr">>
    /\ git.head = <<"fr">>
    /\ <<"fr">> \in DOMAIN git.heads
    /\ <<"main">> \in DOMAIN git.heads

\* ------------------------------------------------------ the commit message

\* The message of the commit command of a step, where there is one.
CommitArgs(cmds) ==
    {cmds[i].arg : i \in {j \in DOMAIN cmds : cmds[j].cmd = "commit -m"}}

\* C28: the commit message built by CommitChanges is exactly the subject
\* when the body is empty, and subject, one blank line, then body when the
\* body is not empty.
C28_MessageShape ==
    Open =>
        LET subject == m.commitModal.subject
            body == m.commitModal.description
        IN  \A o \in Outcomes :
                CommitArgs(Update(m, git, Key("ctrl+s"), o).cmds) \subseteq
                    {IF body = <<>> THEN subject
                     ELSE subject \o <<"\n", "\n">> \o body}

\* C28 as the code has it: the message is exactly the subject when the body
\* is empty or white space only, and subject, one blank line, then the body
\* as typed otherwise; a commit that is made carries that message.
C28_MessageShapeBlankBody ==
    Open =>
        LET subject == m.commitModal.subject
            body == m.commitModal.description
            message == IF Blank(body) THEN subject
                       ELSE subject \o <<"\n", "\n">> \o body
        IN  /\ CommitMessage(subject, body) = message
            /\ \A o \in Outcomes :
                   LET r == Update(m, git, Key("ctrl+s"), o)
                   IN  /\ CommitArgs(r.cmds) \subseteq {message}
                       /\ Len(r.g.commits) > Len(git.commits) =>
                              r.g.commits[1].message = message
                       /\ (~Blank(subject) /\ o.add) => CommitArgs(r.cmds) # {}

\* A commit with the subject q and a body of one blank was made: its
\* message is q alone.
C28_Witness ==
    /\ phase = "running"
    /\ git.commits # <<>>
    /\ git.commits[1].message = <<"q">>
    /\ m.commitModal.subject = <<"q">>
    /\ m.commitModal.description = <<" ">>
    /\ issued[2] = [cmd |-> "commit -m", arg |-> <<"q">>]

\* --------------------------------------------------------- the change guard

\* The paths in the diff of the index against HEAD, and in the diff of the
\* working tree against the index: git lists a path there when its status
\* code on that side says modified, added, deleted, renamed, copied, type
\* changed or unmerged. An untracked file ("??") is in neither diff.
StagedDiff(g) ==
    {p \in DOMAIN g.changes : g.changes[p].x \in {"M", "A", "D", "R", "C", "T", "U"}}

WorkTreeDiff(g) ==
    {p \in DOMAIN g.changes : g.changes[p].y \in {"M", "A", "D", "R", "C", "T", "U"}}

StatusCodes == {" ", "M", "A", "D", "R", "C", "U", "T", "?", "!"}

\* The order in which a code decides the overall status.
Precedence == <<"A", "D", "R", "C", "U">>

\* The first code of the precedence found in either position, else "M".
ByPrecedence(x, y) ==
    LET found == {i \in DOMAIN Precedence : Precedence[i] \in {x, y}}
    IN  IF found = {} THEN "M"
        ELSE Precedence[CHOOSE i \in found : \A j \in found : i <= j]

\* C30: for every pair of staged and work-tree status codes the overall
\* status of a changed file follows the fixed precedence Added, Deleted,
\* Renamed, Copied, Unmerged, and is Modified when none of these codes is
\* in either position; it depends on the two codes alone, so that every
\* entry of the status list has the status its file's two codes call for.
C30_StatusByPrecedence ==
    /\ \A x \in StatusCodes, y \in StatusCodes :
           OverallStatus(x, y) = ByPrecedence(x, y)
    /\ LET status == GetGitStatus(git)
       IN  /\ Len(status) = Cardinality(DOMAIN git.changes)
           /\ \A i \in DOMAIN status :
                  /\ status[i].Path[1] \in DOMAIN git.changes
                  /\ status[i].Status =
                         ByPrecedence(git.changes[status[i].Path[1]].x,
                                      git.changes[status[i].Path[1]].y)

\* The modal lists an added file and a modified one, which a failed commit
\* left staged.
C30_Witness ==
    /\ Open
    /\ \E i, j \in DOMAIN m.commitModal.gitStatus :
        /\ m.commitModal.gitStatus[i].Status = "A"
        /\ m.commitModal.gitStatus[i].StagedStatus = "A"
        /\ m.commitModal.gitStatus[j].Status = "M"

\* ------------------------------------------------- the line statistics run

\* The records of one git diff --numstat output.
MaxRecords == 2

LineCounts == {0, 3, 12}

\* A path of two characters and a path with a blank, which git prints as
\* it stands.
NumstatPaths == {<<"f", "1">>, <<"a", " ", "b">>}

\* What git reports of a file: the counts of a text file, none of a binary
\* file.
NumstatRecords ==
    {[binary |-> FALSE, added |-> a, deleted |-> d, path |-> p] :
        a \in LineCounts, d \in LineCounts, p \in NumstatPaths}
    \cup {[binary |-> TRUE, added |-> 0, deleted |-> 0, path |-> p] :
            p \in NumstatPaths}

InitNumstat ==
    \E n \in 0..MaxRecords : \E records \in [1..n -> NumstatRecords] :
        /\ git = SessionRepo
        /\ m = NewModel(Flags(MaxCount, FALSE, <<All>>))
        /\ phase = "start"
        /\ issued = <<>>
        /\ events = 0
        /\ stderr = <<>>
        /\ logViewer = NewLogViewer
        /\ numstat = NumstatOf(records)

Counted(total, ok) ==
    numstat' = [numstat EXCEPT !.ran = TRUE, !.ok = ok,
                               !.added = total.added, !.deleted = total.deleted]

\* getNumstatForFile runs git diff --numstat, which succeeds or fails.
RunNumstat ==
    /\ ~numstat.ran
    /\ \E ok \in BOOLEAN : Counted(getNumstatForFile(numstat.records, ok), ok)
    /\ UNCHANGED <<git, m, phase, issued, events, stderr, logViewer>>

SpecNumstat == InitNumstat /\ [][RunNumstat]_vars

\* The sum of a field over the records of text files.
RECURSIVE TextTotal(_, _)
TextTotal(records, field) ==
    IF records = <<>> THEN 0
    ELSE (IF records[1].binary THEN 0 ELSE records[1][field])
            + TextTotal(Tail(records), field)

\* C31: when the output of git diff --numstat has been parsed, the added
\* total is the sum of the added counts of the records with two numeric
\* fields and the deleted total the sum of their deleted counts: a record
\* with "-" fields (a binary file) adds nothing to either total.
C31_BinaryCountsZero ==
    (numstat.ran /\ numstat.ok) =>
        /\ numstat.added = TextTotal(numstat.records, "added")
        /\ numstat.deleted = TextTotal(numstat.records, "deleted")

\* A parsed output with a binary record and a text record that has lines
\* added and deleted.
C31_Witness ==
    /\ numstat.ran /\ numstat.ok
    /\ \E i \in DOMAIN numstat.records : numstat.records[i].binary
    /\ \E i \in DOMAIN numstat.records :
           /\ ~numstat.records[i].binary
           /\ numstat.records[i].added > 0
           /\ numstat.records[i].deleted > 0
    /\ numstat.added > 0

\* ------------------------------------------------ the workflow has the keys

\* The events of a session, and those that latch no decision in the state
\* at hand.
AllEvents ==
    {Key(k) : k \in CommandKeys \cup PlainKeys}
        \cup {Runes(<<c>>) : c \in {"q", "r", "c", " "}} \cup {Paste(<<" ">>)}

Undecided == AllEvents \ {Key(kd[1]) : kd \in Latching}

\* With the workflow open, an event that latches no decision changes the
\* modal as CommitModal.Update does and nothing else: the list, the cursor,
\* the message and the error stay, no command runs, the program goes on.
C32_RoutedToModal ==
    Open =>
        \A msg \in Undecided, o \in Outcomes :
            LET r == Update(m, git, msg, o)
            IN  /\ r.m = [m EXCEPT !.commitModal = ModalUpdate(m.commitModal, msg)]
                /\ r.m.commitModal.visible
                /\ r.m.commitModal.action = "None"
                /\ ~r.m.quitting
                /\ r.g = git
                /\ r.cmds = <<>>

\* A step that starts with the workflow open does not end the program, and
\* while the workflow stays open it runs no command and leaves the
\* repository, the list, the message and the error as they were.
C32_NoExitWhileOpen ==
    [][Open =>
        /\ phase' = "running"
        /\ m'.commitModal.visible =>
            /\ git' = git
            /\ issued' = <<>>
            /\ m'.branches = m.branches
            /\ m'.cursor = m.cursor
            /\ m'.message = m.message
            /\ m'.err = m.err]_vars

\* C32: while the workflow is open every key event goes to the modal only:
\* the quit, refresh and select keys of the main screen have no effect, so
\* the list is not resolved again, no switch is attempted and the program
\* does not exit before a decision has been latched and processed.
C32_ModalHasTheKeys == []C32_RoutedToModal /\ C32_NoExitWhileOpen

\* The letter q has been typed into the subject of the open workflow and
\* the program is running.
C32_Witness ==
    /\ Open
    /\ phase = "running"
    /\ m.commitModal.subject = <<"q">>
    /\ ~m.quitting

\* ------------------------------------------------ selecting on a dirty tree

\* The row under the cursor names a branch other than the one checked out,
\* and a tracked file has a change.
SelectedOtherOnDirtyTree ==
    /\ phase = "running"
    /\ ~m.commitModal.visible
    /\ m.cursor < Len(m.branches)
    /\ GetCurrentBranch(git).ok
    /\ StripRemote(m.branches[m.cursor + 1].Name) # git.head
    /\ HasUncommittedChanges(git)

\* The messages that report a switch.
SwitchReports ==
    {"Switched to branch: ", "Committed changes and switched to: ",
     "Stashed changes and switched to: "}

\* Enter on another branch with a dirty tree opens the workflow for that
\* branch; the repository, the message, the error, the list and the cursor
\* are as before and no command has run.
C33_DirtySelectionOpens ==
    SelectedOtherOnDirtyTree =>
        \A o \in Outcomes :
            LET r == Update(m, git, Key("enter"), o)
            IN  /\ r.m.commitModal.visible
                /\ r.m.commitModal.targetBranch = m.branches[m.cursor + 1].Name
                /\ r.m.commitModal.action = "None"
                /\ r.g = git
                /\ r.cmds = <<>>
                /\ r.m.message = m.message
                /\ r.m.err = m.err
                /\ r.m.branches = m.branches
                /\ r.m.cursor = m.cursor

\* A step that sets a message reporting a switch has issued a checkout
\* that moved HEAD to the branch the message names.
C33_ReportAfterSwitch ==
    [][(/\ m'.message # m.message
        /\ m'.message # <<>>
        /\ m'.message[1] \in SwitchReports) =>
            /\ \E i \in DOMAIN issued' : issued'[i].cmd \in {"checkout", "checkout -b"}
            /\ git'.head # git.head
            /\ git'.head = StripRemote(Tail(m'.message))]_vars

SpaceOrEnter == {Runes(<<" ">>), Key("enter")}

\* The modal after the expansion of the selected file has been toggled.
Toggled(modal) ==
    LET path == modal.gitStatus[modal.selectedFile + 1].Path
    IN  [modal EXCEPT !.expandedFiles =
            IF path \in @ THEN @ \ {path} ELSE @ \cup {path}]

\* C34: while the workflow is open, a space or enter key event leaves the
\* subject and the body text as they are, whichever field has the focus:
\* with the focus on the file list it toggles the expansion of the selected
\* file, otherwise it changes nothing at all.
C34_SpaceAndEnterSpareText ==
    Open =>
        \A msg \in SpaceOrEnter, o \in Outcomes :
            LET r == Update(m, git, msg, o)
            IN  /\ r.m.commitModal.subject = m.commitModal.subject
                /\ r.m.commitModal.description = m.commitModal.description
                /\ r.g = git
                /\ r.cmds = <<>>
                /\ r.m = [m EXCEPT !.commitModal =
                            IF /\ m.commitModal.focusIndex = FocusGitStatus
                               /\ m.commitModal.selectedFile < Len(m.commitModal.gitStatus)
                            THEN Toggled(m.commitModal)
                            ELSE m.commitModal]

\* With the subject in focus and holding text, a file of the list is
\* expanded: the key was pressed at the file list and the text typed later.
C34_Witness ==
    /\ Open
    /\ m.commitModal.focusIndex = FocusSubject
    /\ m.commitModal.subject = <<"q">>
    /\ m.commitModal.expandedFiles # {}

\* --------------------------------------------- a session with a lost config

\* The user unsets or sets user.email and user.name while the program runs.
EditConfig ==
    /\ phase = "running"
    /\ \E cfg \in {Configured, Unconfigured} \ {git.userCfg} :
           git' = [git EXCEPT !.userCfg = cfg]
    /\ issued' = <<>>
    /\ UNCHANGED <<m, phase, events, stderr, numstat, logViewer>>

\* The user modifies a tracked file of a clean working tree.
ModifyFile ==
    /\ phase = "running"
    /\ git.changes = << >>
    /\ git' = [git EXCEPT !.changes = ("f1" :> Change(" ", "M"))]
    /\ issued' = <<>>
    /\ UNCHANGED <<m, phase, events, stderr, numstat, logViewer>>

\* A session that lists the user's own branches.
InitRefresh ==
    StartState(SessionRepo, Flags(MaxCount, TRUE, <<Mine>>))

NextRefresh ==
    Startup \/ PressCommandKey \/ PressKey \/ PressLetter \/ TypeText
        \/ ModifyFile \/ EditConfig

SpecRefresh == InitRefresh /\ [][NextRefresh]_vars

\* With the error set, the view is the error alone, and every event leaves
\* the error as it is: the view after the event is the same, or the
\* farewell when the event was a quit key.
C35_ErrorShown ==
    (phase = "running" /\ m.err # "") =>
        /\ View(m) = [kind |-> "error", text |-> <<"Error: ", m.err>>]
        /\ \A msg \in AllEvents, o \in Outcomes :
               LET r == Update(m, git, msg, o)
               IN  /\ r.m.err = m.err
                   /\ IF r.m.quitting
                      THEN View(r.m).kind = "farewell"
                      ELSE View(r.m) = View(m)

\* C35: once a failed refresh of the list, after a direct switch or on the
\* refresh key, has set the error of the model, no later event clears it:
\* every view from then on shows the error alone, also after a refresh that
\* succeeds, until the user quits.
C35_ErrorIsNeverCleared ==
    []C35_ErrorShown /\ [][m.err # "" => m'.err = m.err]_vars

\* The error of a failed refresh is set, and a later refresh has succeeded.
C35_Witness ==
    /\ phase = "running"
    /\ m.err = "failed to get current user"
    /\ m.message = <<"Refreshed!">>
    /\ GetCurrentUser(git).ok

\* ----------------------------------------------------- "mine" further back

\* "mine" is in the list of authors, but not in the first place.
MineComesLater(authors) ==
    /\ Len(authors) > 0
    /\ authors[1] \notin {Mine, All}
    /\ \E k \in DOMAIN authors : authors[k] = Mine

\* A commit of the branch matches an author of the list other than "mine".
MatchesNamedAuthor(g, branch, authors) ==
    \E i \in DOMAIN TipOf(g, RefOf(branch)).uniq, k \in DOMAIN authors :
        /\ authors[k] # Mine
        /\ \/ Contains(ToLower(TipOf(g, RefOf(branch)).uniq[i].email),
                       ToLower(authors[k]))
           \/ Contains(ToLower(TipOf(g, RefOf(branch)).uniq[i].name),
                       ToLower(authors[k]))

\* C36: the configured identity is looked up exactly when the first author
\* of the list is "mine". With "mine" further back (as in -author b,mine)
\* no identity is read, the list is the same whether or not one is
\* configured, and a branch decided by its commits, all of which carry an
\* author email and name, passes only by a commit that matches another
\* author of the list: "mine" matches none of them.
C36_MineOnlyInFirstPlace ==
    /\ ("config" \in Range(ResolverQueries(git, m.includeRemote, m.authors)))
           <=> (git.inRepo /\ m.authors[1] = Mine)
    /\ (git.inRepo /\ MineComesLater(m.authors)) =>
           LET kept == Range(FilteredBranches(git, TRUE, m.authors))
           IN  /\ Range(FilteredBranches([git EXCEPT !.userCfg = Unconfigured],
                                         TRUE, m.authors)) = kept
               /\ \A branch \in Range(AllBranches(git, TRUE)) :
                      DecidedByCommits(git, branch) =>
                          /\ \A i \in DOMAIN TipOf(git, RefOf(branch)).uniq :
                                 /\ TipOf(git, RefOf(branch)).uniq[i].email # <<>>
                                 /\ TipOf(git, RefOf(branch)).uniq[i].name # <<>>
                          /\ (branch \in kept) <=>
                                 MatchesNamedAuthor(git, branch, m.authors)

\* Under -author b,mine the list has been resolved with the identity of the
\* author of fa configured, and fa, whose only commit of its own is by that
\* author, is not in the list.
C36_Witness ==
    /\ phase = "running"
    /\ m.authors = << <<"b">>, Mine >>
    /\ m.count = MaxCount
    /\ GetCurrentUser(git).v = Me.email
    /\ TipOf(git, <<"fa">>).uniq = <<Me>>
    /\ DecidedByCommits(git, [Name |-> <<"fa">>, IsRemote |-> FALSE])
    /\ \A i \in DOMAIN m.branches : m.branches[i].Name # <<"fa">>

\* --------------------------------------------------------- a negative limit

\* The program started with a negative -n, in repositories the resolver
\* can read and in repositories where one of its first queries fails.
InitNegative ==
    \E profile \in Profiles, sa \in Times, sb \in Times,
       head \in {<<"main">>, <<"fa">>, <<"HEAD">>},
       fault \in {"none", "norepo", "noreflog", "nouser"},
       includeRemote \in BOOLEAN, authors \in {<<All>>, <<Mine>>, << <<"b">> >>},
       count \in {-1, -MaxCount} :
        LET g == Repo(head, SmallHeads(profile, sa, sb),
                      SmallRemotes(profile, sa, sb), <<>>, Sec(MaxTime) + 1)
        IN  StartState(
                CASE fault = "norepo"   -> [g EXCEPT !.inRepo = FALSE]
                  [] fault = "noreflog" -> [g EXCEPT !.reflogOK = FALSE]
                  [] fault = "nouser"   -> [g EXCEPT !.userCfg = Unconfigured]
                  [] OTHER -> g,
                Flags(count, includeRemote, authors))

SpecNegative == InitNegative /\ [][Startup]_vars

\* C37: for a negative limit, a call of GetRecentBranches that gets as far
\* as the truncation returns neither a list nor an error: slicing with the
\* negative bound aborts it, whatever the length of the list, and the
\* program ends in a panic before the table is set up. A call that fails
\* at an earlier query returns its error.
C37_NegativeLimitAborts ==
    m.count < 0 =>
        LET r == GetRecentBranches(git, m.count, m.includeRemote, m.authors)
        IN  /\ IF ResolverCanRun
               THEN r.kind = "panic" /\ r.list = <<>> /\ r.err = ""
               ELSE r.kind = "err" /\ r.list = <<>> /\ r.err # ""
            /\ phase # "running"
            /\ m.branches = <<>>
            /\ phase # "start" =>
                   phase = (IF ResolverCanRun THEN "crashed" ELSE "exit1")

\* The program was started with -n -1 in a repository the resolver can
\* read and has ended in a panic, without a list and without an error.
C37_Witness ==
    /\ phase = "crashed"
    /\ m.count = -1
    /\ m.branches = <<>>
    /\ m.err = ""
    /\ ResolverCanRun
    /\ Len(AllBranches(git, m.includeRemote)) > 0

\* ------------------------------------------------------ focus and selection

\* The three values of the focus index.
FocusValues == {FocusGitStatus, FocusSubject, FocusDescription}

\* The modal with the focus index f.
Focused(modal, f) == updateFieldFocus([modal EXCEPT !.focusIndex = f])

\* C38: in every reachable state the focus index of the modal is one of
\* file list, subject and body; nextField and prevField are rotations of
\* these three values and undo each other; and the index of the selected
\* file is within the status list, 0 when the list is empty, whatever keys
\* were pressed.
C38_FocusAndSelectionInRange ==
    /\ m.commitModal.focusIndex \in FocusValues
    /\ m.commitModal.selectedFile >= 0
    /\ m.commitModal.selectedFile <= Max(Len(m.commitModal.gitStatus) - 1, 0)
    /\ \A f \in FocusValues :
           LET modal == Focused(m.commitModal, f)
           IN  /\ nextField(modal).focusIndex \in FocusValues \ {f}
               /\ prevField(modal).focusIndex \in FocusValues \ {f}
               /\ nextField(modal).focusIndex # prevField(modal).focusIndex
               /\ prevField(nextField(modal)) = modal
               /\ nextField(prevField(modal)) = modal
               /\ nextField(nextField(nextField(modal))) = modal
    /\ Open =>
           /\ m.commitModal = Focused(m.commitModal, m.commitModal.focusIndex)
           /\ \A k \in {"tab", "shift+tab", "up", "down"} :
                  LET after == ModalUpdate(m.commitModal, Key(k))
                  IN  /\ after.focusIndex \in FocusValues
                      /\ after.selectedFile \in 0..Max(Len(after.gitStatus) - 1, 0)
                      /\ after.gitStatus = m.commitModal.gitStatus

\* The workflow is open on a status list of two files, the second file is
\* selected and the focus has been moved on to the body.
C38_Witness ==
    /\ Open
    /\ Len(m.commitModal.gitStatus) = 2
    /\ m.commitModal.selectedFile = 1
    /\ m.commitModal.focusIndex = FocusDescription
    /\ m.commitModal.descriptionFocus
    /\ ~m.commitModal.subjectFocus

\* ------------------------------------------------- the session at the pane

InitLog == StartState(SessionRepo, Flags(MaxCount, FALSE, <<All>>))

\* Update on a key of the pane, with the modal hidden (main.go:773-802,
\* 851-862): the pane takes the key; up and down go to the table when the
\* pane has no focus. The events of this session are not counted.
HandleLogs(msg) ==
    /\ phase = "running"
    /\ ~m.commitModal.visible
    /\ logViewer' = UpdateLogs(logViewer, msg)
    /\ m' = IF logViewer.focused THEN m ELSE UpdateTable(m, msg)
    /\ issued' = <<>>
    /\ UNCHANGED <<git, phase, events, stderr, numstat>>

\* The user moves the focus between the table and the pane.
PressTab == HandleLogs(Key("tab"))

\* The user clears the pane.
PressL == HandleLogs(Runes(<<"l">>))

\* The user presses up or down.
PressArrow == \E k \in {"up", "down"} : HandleLogs(Key(k))

NextLog == Startup \/ PressTab \/ PressL \/ PressArrow

SpecLog == InitLog /\ [][NextLog]_vars

\* The bottom of a pane: the largest scroll offset.
Bottom(lv) == Max(0, Len(lv.entries) - maxVisible)

\* The pane holds at most maxEntries entries, the scroll offset is between
\* 0 and the bottom, and with auto-scroll it is the bottom.
InBounds(lv) ==
    /\ Len(lv.entries) <= maxEntries
    /\ lv.scrollOffset >= 0
    /\ lv.scrollOffset <= Bottom(lv)
    /\ lv.autoScroll => lv.scrollOffset = Bottom(lv)

\* C39: under any sequence of log appends, scroll-up, scroll-down and
\* clear operations the pane holds at most maxEntries (50) entries, the
\* scroll offset is between 0 and max(0, entries - maxVisible), and with
\* auto-scroll enabled it equals max(0, entries - maxVisible): this holds
\* of the pane in every state and of the pane after each single operation.
C39_PaneInBounds ==
    /\ InBounds(logViewer)
    /\ InBounds(addLogEntry(logViewer, LogEntry("INFO", "User quit application")))
    /\ InBounds(clearLogs(logViewer))
    /\ InBounds(ScrollUp(logViewer))
    /\ InBounds(ScrollDown(logViewer))

\* The pane is full and its oldest entries have been dropped; the user has
\* scrolled up from the bottom, which has switched auto-scroll off.
C39_Witness ==
    /\ Len(logViewer.entries) = maxEntries
    /\ logViewer.entries[1].Message = "Switched focus to table"
    /\ logViewer.focused
    /\ ~logViewer.autoScroll
    /\ logViewer.scrollOffset = 3

====
